---- MODULE Spec2Model ----
(***************************************************************************)
(* Model of the JSON-RPC WebSocket client (core/client.ts) and its event   *)
(* emitter (core/event-emitter.ts).                                        *)
(*                                                                         *)
(* The session is a record s whose fields are the fields of the class.     *)
(* Every method and handler is an operator from a session record to the    *)
(* session record after the call; an action applies one method or handler  *)
(* to the current state.  s.trace is the sequence of effects of the call   *)
(* that made the current state (emits, sink completions, sends, timers).   *)
(***************************************************************************)
EXTENDS Integers, Sequences, FiniteSets, TLC

VARIABLES ws, transports, autoReconnect, url, heartbeatInterval,
          pendingRequests, reqs, streamCallbacks, ctrls,
          reconnectAttempts, reconnectTimeoutId, heartbeatIntervalId,
          stats, responseTimes, listeners, trace

\* one run of the codec: the value given to serialize, the bytes it
\* returned, the value deserialize returned for them, and how far the run is
VARIABLES stage, input, encoded, decoded

vars == <<ws, transports, autoReconnect, url, heartbeatInterval,
          pendingRequests, reqs, streamCallbacks, ctrls,
          reconnectAttempts, reconnectTimeoutId, heartbeatIntervalId,
          stats, responseTimes, listeners, trace,
          stage, input, encoded, decoded>>

(***************************************************************************)
(* Bounds of the model.                                                    *)
(***************************************************************************)
\* the size of a behaviour: requests, stream controllers, frames received,
\* reconnects scheduled, transports that still deliver events and listeners
MaxObjects == 4
\* request() and stream() calls that reach the transport
MaxCalls == 2
LiveMaxObjects == 3
maxReconnectAttempts == 2

(***************************************************************************)
(* Values.                                                                 *)
(***************************************************************************)
Connecting == 0
Open == 1
Closing == 2
Closed == 3

NullId == 0
CallerIds == {1}
GenBase == 100
Urls == {"ws://a", "invalid"}
Results == {"T"}
Latencies == {5}
\* the configuration of DEFAULT_OPTIONS
Configs == {[autoReconnect |-> TRUE, heartbeatInterval |-> 30000]}
EventNames == {"open", "close", "error", "message",
               "reconnecting", "reconnected", "reconnect_failed"}
ListenEvents == {"message"}
NoArgs == [code |-> 0, reason |-> "undefined"]
CloseArgs == {[code |-> 1000, reason |-> "bye"]}

NoValue == [message |-> "", code |-> 0, result |-> ""]
Result(r) == [message |-> "", code |-> 0, result |-> r]
Err(m, c) == [message |-> m, code |-> c, result |-> ""]
NotConnected == Err("WebSocket is not connected", 0)
Timeout == Err("Request timeout", 0)
ConnectionClosed == Err("Connection closed", 0)
ClosedByClient == Err("Connection closed by client", 0)
SendFailed == Err("serialize", 0)

\* inbound frames: a response with result, a response with error, or bytes
\* that do not decode
GenIds == {GenBase + k : k \in 1..MaxObjects}
FrameIds == {NullId} \cup CallerIds \cup GenIds
Frames ==
  [kind : {"result"}, id : FrameIds,
   result : Results, message : {""}, code : {0}]
  \cup [kind : {"error"}, id : FrameIds,
        result : {""}, message : {"no such method"}, code : {-32601}]
  \cup [kind : {"garbage"}, id : {NullId}, result : {""}, message : {""},
        code : {0}]

(***************************************************************************)
(* JavaScript Map, in insertion order: a sequence of [k, v] entries.       *)
(***************************************************************************)
MapHas(m, k) == \E i \in 1..Len(m) : m[i].k = k
MapGet(m, k) == IF MapHas(m, k)
                THEN m[CHOOSE i \in 1..Len(m) : m[i].k = k].v
                ELSE 0
MapSet(m, k, v) ==
  IF MapHas(m, k)
  THEN [i \in 1..Len(m) |-> IF m[i].k = k THEN [k |-> k, v |-> v] ELSE m[i]]
  ELSE Append(m, [k |-> k, v |-> v])
MapDelete(m, k) == SelectSeq(m, LAMBDA e : e.k # k)
MapKeys(m) == {m[i].k : i \in 1..Len(m)}
MapValues(m) == {m[i].v : i \in 1..Len(m)}

(***************************************************************************)
(* The session record.                                                     *)
(***************************************************************************)
S == [ws |-> ws, transports |-> transports, autoReconnect |-> autoReconnect,
      url |-> url, heartbeatInterval |-> heartbeatInterval,
      pendingRequests |-> pendingRequests, reqs |-> reqs,
      streamCallbacks |-> streamCallbacks, ctrls |-> ctrls,
      reconnectAttempts |-> reconnectAttempts,
      reconnectTimeoutId |-> reconnectTimeoutId,
      heartbeatIntervalId |-> heartbeatIntervalId,
      stats |-> stats, responseTimes |-> responseTimes,
      listeners |-> listeners, trace |-> <<>>]

Becomes(s) ==
  /\ ws' = s.ws
  /\ transports' = s.transports
  /\ autoReconnect' = s.autoReconnect
  /\ url' = s.url
  /\ heartbeatInterval' = s.heartbeatInterval
  /\ pendingRequests' = s.pendingRequests
  /\ reqs' = s.reqs
  /\ streamCallbacks' = s.streamCallbacks
  /\ ctrls' = s.ctrls
  /\ reconnectAttempts' = s.reconnectAttempts
  /\ reconnectTimeoutId' = s.reconnectTimeoutId
  /\ heartbeatIntervalId' = s.heartbeatIntervalId
  /\ stats' = s.stats
  /\ responseTimes' = s.responseTimes
  /\ listeners' = s.listeners
  /\ trace' = s.trace
  /\ UNCHANGED <<stage, input, encoded, decoded>>

\* one effect of a call: what happened (e), to what (ev), with two numbers
\* (a, b), the listeners it was delivered to (to), and the size of the
\* pending table and the armed reconnect timer at that moment
Effect(s, e, ev, a, b, to) ==
  [e |-> e, ev |-> ev, a |-> a, b |-> b, to |-> to,
   pend |-> Len(s.pendingRequests)]
Log(s, e, ev, a, b) ==
  [s EXCEPT !.trace = Append(@, Effect(s, e, ev, a, b, <<>>))]

(***************************************************************************)
(* EventEmitter: listeners is a Map from event name to a Set of listeners, *)
(* here a function from event name to the listeners in insertion order;    *)
(* an event without a key is an event with no listener.                    *)
(***************************************************************************)
NoListeners == [e \in EventNames |-> <<>>]
InSeq(q, x) == \E i \in 1..Len(q) : q[i] = x

on(s, event, listener) ==
  IF InSeq(s.listeners[event], listener)
  THEN s
  ELSE [s EXCEPT !.listeners[event] = Append(@, listener)]

off(s, event, listener) ==
  [s EXCEPT !.listeners[event] = SelectSeq(@, LAMBDA x : x # listener)]

\* the listeners of the session are passive: a delivery is an effect
emit(s, event, a, b) ==
  [s EXCEPT !.trace =
     Append(@, Effect(s, "emit", event, a, b, s.listeners[event]))]

removeAllListeners(s) == [s EXCEPT !.listeners = NoListeners]

(***************************************************************************)
(* EventEmitter with listeners that act.  emit iterates the Set of the     *)
(* event itself (for ... of eventListeners), and a listener may call on    *)
(* and off of the same emitter while the iteration runs.  A Set that is    *)
(* being iterated keeps its entries in insertion order; delete leaves a    *)
(* hole (NoListener) that the iterator skips, add appends an entry that    *)
(* the iterator reaches later.                                             *)
(***************************************************************************)
NoListener == 0
\* returns
Plain == 1
\* throws
Thrower == 2
\* calls on(event, Late)
Adder == 3
\* returns
Late == 4
\* calls off(event, Plain)
Remover == 5
Listeners == {Plain, Thrower, Adder, Late, Remover}

SetAdd(q, x) == IF InSeq(q, x) THEN q ELSE Append(q, x)
SetDelete(q, x) == [i \in 1..Len(q) |-> IF q[i] = x THEN NoListener ELSE q[i]]
SetSize(q) == Cardinality({i \in 1..Len(q) : q[i] # NoListener})
SetValues(q) == SelectSeq(q, LAMBDA x : x # NoListener)

\* an iteration: set is the Set being iterated, same says that the Map
\* still holds that Set under the event, other is what the Map holds if not
Iteration(q) == [set |-> q, same |-> TRUE, other |-> <<>>]

\* on(event, x) called by a listener during the iteration
onDuring(it, x) ==
  IF it.same
  THEN [it EXCEPT !.set = SetAdd(@, x)]
  ELSE [it EXCEPT !.other = SetAdd(@, x)]

\* off(event, x) called by a listener during the iteration: a Set that
\* becomes empty is removed from the Map
offDuring(it, x) ==
  IF it.same
  THEN LET q == SetDelete(it.set, x)
       IN [it EXCEPT !.set = q, !.same = SetSize(q) # 0]
  ELSE [it EXCEPT !.other = SelectSeq(@, LAMBDA y : y # x)]

\* the call listener(data) inside the try block
invoke(it, event, l) ==
  CASE l = Adder -> onDuring(it, Late)
    [] l = Remover -> offDuring(it, Plain)
    [] OTHER -> it

RECURSIVE emitFrom(_, _, _, _)
emitFrom(s, event, it, i) ==
  IF i > Len(it.set)
  THEN [s EXCEPT !.listeners[event] =
          IF it.same THEN SetValues(it.set) ELSE it.other]
  ELSE IF it.set[i] = NoListener
  THEN emitFrom(s, event, it, i + 1)
  ELSE LET l == it.set[i]
           s1 == Log(s, "listener", event, l, 0)
           s2 == IF l = Thrower THEN Log(s1, "caught", event, l, 0) ELSE s1
       IN emitFrom(s2, event, invoke(it, event, l), i + 1)

EventEmitter_emit(s, event) ==
  emitFrom(s, event, Iteration(s.listeners[event]), 1)

(***************************************************************************)
(* The transport (WebSocket) as the session uses it.                       *)
(***************************************************************************)
NewTransport(u) == [rs |-> Connecting]

\* WebSocket.close(code, reason): starts the closing handshake of a
\* transport that is connecting or open
wsClose(tr, args) ==
  [tr EXCEPT !.rs = IF tr.rs \in {Connecting, Open} THEN Closing ELSE @]

state(s) == IF s.ws = 0 THEN Closed ELSE s.transports[s.ws].rs
\* a connection test that only excludes Closed
isConnected_NotClosed(s) == state(s) # Closed
isConnected(s) == state(s) = Open

getStats(s) == [s.stats EXCEPT !.pendingRequests = Len(s.pendingRequests)]

(***************************************************************************)
(* Completion sinks: resolve and reject of a request's promise.  calls     *)
(* counts every call of resolve or reject; the promise keeps the first.    *)
(***************************************************************************)
NewRequest(id) ==
  [id |-> id, timer |-> TRUE, sink |-> "pending", value |-> NoValue,
   calls |-> 0]

settle(s, r, outcome, value) ==
  LET s1 == [s EXCEPT
               !.reqs[r].calls = @ + 1,
               !.reqs[r].sink = IF @ = "pending" THEN outcome ELSE @,
               !.reqs[r].value =
                  IF s.reqs[r].sink = "pending" THEN value ELSE @]
  IN Log(s1, outcome, value.message, r, value.code)

clearTimeout(s, r) == [s EXCEPT !.reqs[r].timer = FALSE]

(***************************************************************************)
(* Private methods of the client.                                          *)
(***************************************************************************)
\* a scheduler that does not look for a timer that is already armed
scheduleReconnect_NoGuard(s) ==
  IF s.reconnectAttempts >= maxReconnectAttempts
  THEN emit(s, "reconnect_failed", 0, 0)
  ELSE LET s1 == [s EXCEPT !.reconnectAttempts = @ + 1,
                           !.stats.reconnectCount = @ + 1]
           s2 == emit(s1, "reconnecting", s1.reconnectAttempts,
                      maxReconnectAttempts)
       IN Log([s2 EXCEPT !.reconnectTimeoutId = TRUE], "arm", "reconnect",
              0, 0)

scheduleReconnect(s) ==
  IF s.reconnectTimeoutId
  THEN s
  ELSE IF s.reconnectAttempts >= maxReconnectAttempts
  THEN emit(s, "reconnect_failed", 0, 0)
  ELSE LET s1 == [s EXCEPT !.reconnectAttempts = @ + 1,
                           !.stats.reconnectCount = @ + 1]
           s2 == emit(s1, "reconnecting", s1.reconnectAttempts,
                      maxReconnectAttempts)
       IN Log([s2 EXCEPT !.reconnectTimeoutId = TRUE], "arm", "reconnect",
              0, 0)

\* new WebSocket(url) throws on a url it cannot parse
connect(s) ==
  IF s.ws # 0 /\ s.transports[s.ws].rs = Connecting
  THEN s
  ELSE IF s.url = "invalid"
  THEN scheduleReconnect(Log(s, "throw", "new WebSocket", 0, 0))
  ELSE Log([s EXCEPT !.transports = Append(@, NewTransport(s.url)),
                     !.ws = Len(s.transports) + 1],
           "connect", s.url, 0, 0)

\* a heartbeat that is armed whatever the interval is
startHeartbeat_AnyInterval(s) ==
  IF s.heartbeatIntervalId
  THEN s
  ELSE Log([s EXCEPT !.heartbeatIntervalId = TRUE], "arm", "heartbeat", 0, 0)

startHeartbeat(s) ==
  IF s.heartbeatInterval <= 0 \/ s.heartbeatIntervalId
  THEN s
  ELSE Log([s EXCEPT !.heartbeatIntervalId = TRUE], "arm", "heartbeat", 0, 0)

stopHeartbeat(s) ==
  IF s.heartbeatIntervalId
  THEN Log([s EXCEPT !.heartbeatIntervalId = FALSE], "clear", "heartbeat",
           0, 0)
  ELSE s

RECURSIVE rejectEntries(_, _, _)
rejectEntries(s, entries, error) ==
  IF entries = <<>>
  THEN s
  ELSE rejectEntries(settle(clearTimeout(s, Head(entries).v),
                            Head(entries).v, "rejected", error),
                     Tail(entries), error)

RECURSIVE clearEntries(_, _)
clearEntries(s, entries) ==
  IF entries = <<>>
  THEN s
  ELSE clearEntries(clearTimeout(s, Head(entries).v), Tail(entries))

\* a purge that cancels the timers and drops the records without rejecting
rejectAllPendingRequests_NoReject(s, error) ==
  [clearEntries(s, s.pendingRequests) EXCEPT !.pendingRequests = <<>>]

rejectAllPendingRequests(s, error) ==
  [rejectEntries(s, s.pendingRequests, error)
     EXCEPT !.pendingRequests = <<>>]

MaxSamples == 100
RECURSIVE Sum(_)
Sum(q) == IF q = <<>> THEN 0 ELSE Head(q) + Sum(Tail(q))

\* averageResponseTime is kept as the pair sum / count
updateResponseTime(s, time) ==
  LET pushed == Append(s.responseTimes, time)
      kept == IF Len(pushed) > MaxSamples THEN Tail(pushed) ELSE pushed
  IN [s EXCEPT !.responseTimes = kept,
               !.stats.averageResponseTime =
                  [sum |-> Sum(kept), count |-> Len(kept)]]

\* an open handler that leaves the attempt counter
handleOpen_KeepsAttempts(s) == emit(startHeartbeat(s), "open", 0, 0)

handleOpen(s) ==
  emit(startHeartbeat([s EXCEPT !.reconnectAttempts = 0]), "open", 0, 0)

\* a dispatcher that does not cancel the timer of the request it completes
completePending_KeepsTimer(s, r, response, time) ==
  LET s3 == [s EXCEPT !.pendingRequests = MapDelete(@, response.id)]
      s4 == updateResponseTime(s3, time)
  IN IF response.kind = "error"
     THEN settle(s4, r, "rejected", Err(response.message, response.code))
     ELSE settle(s4, r, "resolved", Result(response.result))

\* handleMessage, the branch of a frame that matches the pending record of r
completePending(s, r, response, time) ==
  LET s2 == clearTimeout(s, r)
      s3 == [s2 EXCEPT !.pendingRequests = MapDelete(@, response.id)]
      s4 == updateResponseTime(s3, time)
  IN IF response.kind = "error"
     THEN settle(s4, r, "rejected", Err(response.message, response.code))
     ELSE settle(s4, r, "resolved", Result(response.result))

\* a dispatcher that emits the frame before it completes the pending record
handleResponse_EmitsFirst(s, response, time, throws) ==
  LET s1 == [s EXCEPT !.stats.responsesReceived = @ + 1,
                      !.stats.errors =
                         IF response.kind = "error" THEN @ + 1 ELSE @]
      c == MapGet(s1.streamCallbacks, response.id)
      r == MapGet(s1.pendingRequests, response.id)
  IN IF response.id # NullId /\ c # 0
     THEN LET s2 == Log(s1, "call", response.kind, c, response.id)
          IN IF throws THEN s2 ELSE emit(s2, "message", response.id, 0)
     ELSE IF response.id # NullId /\ r # 0
     THEN completePending(emit(s1, "message", response.id, 0), r, response,
                          time)
     ELSE emit(s1, "message", response.id, 0)

\* handleMessage on a decoded frame; time is Date.now() - timestamp, throws
\* tells whether the stream callback throws
handleResponse(s, response, time, throws) ==
  LET s1 == [s EXCEPT !.stats.responsesReceived = @ + 1,
                      !.stats.errors =
                         IF response.kind = "error" THEN @ + 1 ELSE @]
      c == MapGet(s1.streamCallbacks, response.id)
      r == MapGet(s1.pendingRequests, response.id)
  IN IF response.id # NullId /\ c # 0
     THEN LET s2 == Log(s1, "call", response.kind, c, response.id)
          IN IF throws THEN s2 ELSE emit(s2, "message", response.id, 0)
     ELSE IF response.id # NullId /\ r # 0
     THEN emit(completePending(s1, r, response, time), "message",
               response.id, 0)
     ELSE emit(s1, "message", response.id, 0)

\* a handler that counts the frame before it decodes it
handleMessage_CountsFirst(s, frame, time, throws) ==
  IF frame.kind = "garbage"
  THEN [s EXCEPT !.stats.responsesReceived = @ + 1]
  ELSE handleResponse(s, frame, time, throws)

handleMessage(s, frame, time, throws) ==
  IF frame.kind = "garbage"
  THEN s
  ELSE handleResponse(s, frame, time, throws)

\* a close handler that schedules a reconnect whatever autoReconnect says
handleClose_AlwaysReconnects(s) ==
  LET s1 == stopHeartbeat(s)
      s2 == emit(s1, "close", 0, 0)
      s3 == rejectAllPendingRequests(s2, ConnectionClosed)
  IN scheduleReconnect(s3)

handleClose(s) ==
  LET s1 == stopHeartbeat(s)
      s2 == emit(s1, "close", 0, 0)
      s3 == rejectAllPendingRequests(s2, ConnectionClosed)
  IN IF s3.autoReconnect THEN scheduleReconnect(s3) ELSE s3

handleError(s) == emit(s, "error", 0, 0)

(***************************************************************************)
(* Public methods of the client.  optId = NullId: no id given.  fails:     *)
(* encode or send throws.  A throw of an async method (request, notify) is *)
(* the rejection of the promise it returns.                                *)
(***************************************************************************)
\* an id that no request or stream of the session has had
generateUUID(s) == GenBase + Len(s.reqs) + Len(s.ctrls) + 1

request(s, optId, fails) ==
  IF ~isConnected(s)
  THEN Log(s, "throw", NotConnected.message, 0, 0)
  ELSE LET id == IF optId # NullId THEN optId ELSE generateUUID(s)
           r == Len(s.reqs) + 1
           s1 == Log([s EXCEPT !.reqs = Append(@, NewRequest(id))],
                     "arm", "request", r, id)
           s2 == [s1 EXCEPT !.pendingRequests = MapSet(@, id, r)]
       IN IF fails
          THEN settle([clearTimeout(s2, r) EXCEPT
                         !.pendingRequests = MapDelete(@, id)],
                      r, "rejected", SendFailed)
          ELSE [Log(s2, "send", "request", 0, id)
                  EXCEPT !.stats.requestsSent = @ + 1]

\* a notify() that counts the notification as a request
notify_CountsRequest(s, fails) ==
  IF ~isConnected(s)
  THEN Log(s, "throw", NotConnected.message, 0, 0)
  ELSE IF fails
  THEN Log(s, "throw", SendFailed.message, 0, 0)
  ELSE [Log(s, "send", "notification", 0, NullId)
          EXCEPT !.stats.requestsSent = @ + 1]

notify(s, fails) ==
  IF ~isConnected(s)
  THEN Log(s, "throw", NotConnected.message, 0, 0)
  ELSE IF fails
  THEN Log(s, "throw", SendFailed.message, 0, 0)
  ELSE Log(s, "send", "notification", 0, NullId)

NewController(id) == [id |-> id, closed |-> FALSE]

\* a stream() that arms a timer for its subscription
stream_ArmsTimer(s, optId, fails) ==
  IF ~isConnected(s)
  THEN Log(s, "throw", NotConnected.message, 0, 0)
  ELSE LET id == IF optId # NullId THEN optId ELSE generateUUID(s)
           c == Len(s.ctrls) + 1
           s1 == Log([s EXCEPT !.streamCallbacks = MapSet(@, id, c)],
                     "arm", "stream", c, id)
       IN IF fails
          THEN Log([s1 EXCEPT !.streamCallbacks = MapDelete(@, id)],
                   "throw", SendFailed.message, 0, 0)
          ELSE [Log([s1 EXCEPT !.ctrls = Append(@, NewController(id))],
                    "send", "stream", 0, id)
                  EXCEPT !.stats.requestsSent = @ + 1]

stream(s, optId, fails) ==
  IF ~isConnected(s)
  THEN Log(s, "throw", NotConnected.message, 0, 0)
  ELSE LET id == IF optId # NullId THEN optId ELSE generateUUID(s)
           c == Len(s.ctrls) + 1
           s1 == [s EXCEPT !.streamCallbacks = MapSet(@, id, c)]
       IN IF fails
          THEN Log([s1 EXCEPT !.streamCallbacks = MapDelete(@, id)],
                   "throw", SendFailed.message, 0, 0)
          ELSE [Log([s1 EXCEPT !.ctrls = Append(@, NewController(id))],
                    "send", "stream", 0, id)
                  EXCEPT !.stats.requestsSent = @ + 1]

\* StreamController.close
controllerClose(s, c) ==
  IF ~s.ctrls[c].closed
  THEN [s EXCEPT !.ctrls[c].closed = TRUE,
                 !.streamCallbacks = MapDelete(@, s.ctrls[c].id)]
  ELSE s

close(s, args) ==
  LET s1 == [s EXCEPT !.autoReconnect = FALSE]
      s2 == IF s1.reconnectTimeoutId
            THEN Log([s1 EXCEPT !.reconnectTimeoutId = FALSE],
                     "clear", "reconnect", 0, 0)
            ELSE s1
      s3 == stopHeartbeat(s2)
      s4 == IF s3.ws # 0
            THEN [Log(s3, "ws.close", args.reason, 0, args.code)
                    EXCEPT !.transports[s3.ws] = wsClose(@, args),
                           !.ws = 0]
            ELSE s3
      s5 == rejectAllPendingRequests(s4, ClosedByClient)
  IN removeAllListeners(s5)

reconnectToUrl(s, u) ==
  connect([close(s, NoArgs) EXCEPT !.url = u,
                                  !.autoReconnect = TRUE,
                                  !.reconnectAttempts = 0])

\* a timer callback that leaves the record in the table
requestTimeout_KeepsRecord(s, r) ==
  LET s1 == [s EXCEPT !.reqs[r].timer = FALSE,
                      !.stats.timeouts = @ + 1]
  IN [s1 EXCEPT !.reqs[r].calls = @ + 1,
                !.reqs[r].sink = IF @ = "pending" THEN "rejected" ELSE @,
                !.reqs[r].value =
                   IF s.reqs[r].sink = "pending" THEN Timeout ELSE @]

\* a timer callback that does not count the timeout
requestTimeout_NotCounted(s, r) ==
  LET s1 == [s EXCEPT !.reqs[r].timer = FALSE,
                      !.pendingRequests = MapDelete(@, s.reqs[r].id)]
  IN settle(s1, r, "rejected", Timeout)

\* the callback of a request's setTimeout
requestTimeout(s, r) ==
  LET s1 == [s EXCEPT !.reqs[r].timer = FALSE,
                      !.pendingRequests = MapDelete(@, s.reqs[r].id),
                      !.stats.timeouts = @ + 1]
  IN settle(s1, r, "rejected", Timeout)

\* the callback of the reconnect setTimeout
reconnectTimeout(s) == connect([s EXCEPT !.reconnectTimeoutId = FALSE])

\* the callback of the heartbeat setInterval
\* promise.catch(log): the rejection of the call is handled
caught(s) ==
  [s EXCEPT !.trace =
     [i \in 1..Len(@) |->
        IF @[i].e = "throw" THEN [@[i] EXCEPT !.e = "caught"] ELSE @[i]]]

heartbeatTick(s, fails) ==
  IF isConnected(s) THEN caught(notify(s, fails)) ELSE s

(***************************************************************************)
(* JavaScript values as the codec sees them.  A value is a record of its   *)
(* type t, a boolean b (the value of a boolean, the sign of a number), a   *)
(* sequence of numbers s (the UTF-16 code units of a string, the bytes of  *)
(* a byte array, the magnitude of an integer, the IEEE 754 bytes of a      *)
(* number that is not an integer) and its children k (the elements of an   *)
(* array, the members of an object in enumeration order, the value of a    *)
(* member).                                                                *)
(***************************************************************************)
Val(t, b, s, k) == [t |-> t, b |-> b, s |-> s, k |-> k]
Undefined == Val("undefined", FALSE, <<>>, <<>>)
Null == Val("null", FALSE, <<>>, <<>>)
Bool(x) == Val("boolean", x, <<>>, <<>>)
Str(units) == Val("string", FALSE, units, <<>>)
Bin(bytes) == Val("Uint8Array", FALSE, bytes, <<>>)
Arr(items) == Val("array", FALSE, <<>>, items)
Member(key, v) == Val("member", FALSE, key, <<v>>)
Obj(members) == Val("object", FALSE, <<>>, members)
Float(ieee) == Val("float", FALSE, ieee, <<>>)
Ext(type, bytes) == Val("ext", FALSE, <<type>> \o bytes, <<>>)
Function == Val("function", FALSE, <<>>, <<>>)

\* an integer is its sign and its magnitude in base 256, most significant
\* digit first and without leading zeros: the numbers of the codec reach
\* 2^53 and beyond
Num(neg, mag) == Val("number", neg, mag, <<>>)

RECURSIVE Strip(_)
Strip(q) == IF q # <<>> /\ Head(q) = 0 THEN Strip(Tail(q)) ELSE q

Front(q) == SubSeq(q, 1, Len(q) - 1)
Last(q) == q[Len(q)]

\* the w low digits of q, and q without them: q % 256^w and floor(q / 256^w)
Low(q, w) ==
  [i \in 1..w |-> IF i <= w - Len(q) THEN 0 ELSE q[Len(q) - w + i]]
High(q, w) == IF Len(q) > w THEN SubSeq(q, 1, Len(q) - w) ELSE <<>>

MagLess(p, q) ==
  \/ Len(p) < Len(q)
  \/ /\ Len(p) = Len(q)
     /\ \E i \in 1..Len(p) :
          /\ p[i] < q[i]
          /\ \A j \in 1..(i - 1) : p[j] = q[j]

\* q - 1, for q > 0
RECURSIVE Borrow(_)
Borrow(q) ==
  IF Last(q) > 0
  THEN [q EXCEPT ![Len(q)] = @ - 1]
  ELSE Append(Borrow(Front(q)), 255)
MagDec(q) == Strip(Borrow(q))

\* a number of the source text, |n| < 2^31
Number(n) ==
  LET m == IF n < 0 THEN 0 - n ELSE n
  IN Num(n < 0, Strip(<<(m \div 16777216) % 256, (m \div 65536) % 256,
                        (m \div 256) % 256, m % 256>>))

Less(x, y) ==
  IF x.b # y.b THEN x.b
  ELSE IF x.b THEN MagLess(y.s, x.s) ELSE MagLess(x.s, y.s)
Leq(x, y) == x = y \/ Less(x, y)

\* ToUint32(x) as four bytes: the operand of >>> and of ~
Not(w) == [i \in 1..Len(w) |-> 255 - w[i]]
ToUint32(x) == IF x.b THEN Not(Low(MagDec(x.s), 4)) ELSE Low(x.s, 4)
\* (w >>> shift) stored into a Uint8Array, shift a multiple of 8
ShiftByte(w, shift) == w[4 - (shift \div 8)]
Bytes4(w) == <<ShiftByte(w, 24), ShiftByte(w, 16), ShiftByte(w, 8),
               ShiftByte(w, 0)>>
Bytes2(w) == <<ShiftByte(w, 8), ShiftByte(w, 0)>>
Bytes1(w) == <<ShiftByte(w, 0)>>

Max7f == Number(127)
Maxff == Number(255)
Maxffff == Number(65535)
Max7fff == Number(32767)
Max7fffffff == Num(FALSE, <<127, 255, 255, 255>>)
Maxffffffff == Num(FALSE, <<255, 255, 255, 255>>)
MAX_SAFE_INTEGER_HIGH == Num(FALSE, <<31, 255, 255, 255, 255, 255, 255>>)
Zero == Number(0)
Negate(x) == IF x.s = <<>> THEN x ELSE Num(~x.b, x.s)

(***************************************************************************)
(* Date.  A Date is its time value, the milliseconds since the epoch, as   *)
(* sign and magnitude in base 256; its seconds need more than 32 bits.     *)
(***************************************************************************)
Date(neg, mag) == Val("Date", neg /\ mag # <<>>, mag, <<>>)
InvalidDate == Val("Invalid Date", FALSE, <<>>, <<>>)

\* the digits of q divided by d, and the remainder: q = quotient * d + r
RECURSIVE LongDiv(_, _, _, _)
LongDiv(q, d, r, out) ==
  IF q = <<>> THEN [q |-> Strip(out), r |-> r]
  ELSE LongDiv(Tail(q), d, (r * 256 + Head(q)) % d,
               Append(out, (r * 256 + Head(q)) \div d))

\* q * m + c
RECURSIVE Carry(_, _, _)
Carry(q, m, c) ==
  IF q = <<>> THEN Number(c).s
  ELSE Append(Carry(Front(q), m, (Last(q) * m + c) \div 256),
              (Last(q) * m + c) % 256)
Scale(q, m, c) == Strip(Carry(q, m, c))

\* p - q, for p >= q
RECURSIVE SubDigits(_, _, _)
SubDigits(p, q, borrow) ==
  IF p = <<>> THEN <<>>
  ELSE LET d == Last(p) - Last(q) - borrow
       IN Append(SubDigits(Front(p), Front(q), IF d < 0 THEN 1 ELSE 0),
                 IF d < 0 THEN d + 256 ELSE d)
MagSub(p, q) == Strip(SubDigits(p, Low(q, Len(p)), 0))

\* new Date(value): a time value beyond 8.64e15 ms makes an invalid Date
MaxTime == <<30, 178, 8, 194, 220, 0, 0>>
TimeClip(neg, mag) ==
  IF MagLess(MaxTime, mag) THEN InvalidDate ELSE Date(neg, mag)

\* the time value modulo 1000, never negative
getMilliseconds(value) ==
  LET r == LongDiv(value.s, 1000, 0, <<>>).r
  IN IF value.b /\ r # 0 THEN 1000 - r ELSE r

(***************************************************************************)
(* encodeUtf8 and decodeUtf8.  A result is [ok, bytes] or [ok, units]; ok  *)
(* is FALSE when the function throws.                                      *)
(***************************************************************************)
Bytes(q) == [ok |-> TRUE, bytes |-> q]
Throws == [ok |-> FALSE, bytes |-> <<>>]
Cat(r, u) == IF r.ok /\ u.ok THEN Bytes(r.bytes \o u.bytes) ELSE Throws

IsAscii(q) == \A i \in 1..Len(q) : q[i] <= 127

RECURSIVE encodeUnits(_, _)
encodeUnits(str, i) ==
  IF i > Len(str) THEN Bytes(<<>>)
  ELSE LET code == str[i]
       IN IF code < 128
          THEN Cat(Bytes(<<code>>), encodeUnits(str, i + 1))
          ELSE IF code < 2048
          THEN Cat(Bytes(<<192 + (code \div 64), 128 + (code % 64)>>),
                   encodeUnits(str, i + 1))
          ELSE IF code >= 55296 /\ code < 56320
          THEN IF i + 1 > Len(str) THEN Throws
               ELSE LET code2 == str[i + 1]
                        c == 65536 + (code % 1024) * 1024 + (code2 % 1024)
                    IN IF code2 < 56320 \/ code2 > 57343 THEN Throws
                       ELSE Cat(Bytes(<<240 + (c \div 262144),
                                        128 + ((c \div 4096) % 64),
                                        128 + ((c \div 64) % 64),
                                        128 + (c % 64)>>),
                                encodeUnits(str, i + 2))
          ELSE Cat(Bytes(<<224 + (code \div 4096), 128 + ((code \div 64) % 64),
                           128 + (code % 64)>>),
                   encodeUnits(str, i + 1))

encodeUtf8(str) == IF IsAscii(str) THEN Bytes(str) ELSE encodeUnits(str, 1)

\* bytes i..end of the buffer, i and end counted from 1
RECURSIVE decodeBytes(_, _, _)
decodeBytes(bytes, i, end) ==
  IF i > end THEN Bytes(<<>>)
  ELSE LET byte1 == bytes[i]
       IN IF byte1 < 128
          THEN Cat(Bytes(<<byte1>>), decodeBytes(bytes, i + 1, end))
          ELSE IF byte1 < 224
          THEN IF i + 1 > end THEN Throws
               ELSE Cat(Bytes(<<(byte1 % 32) * 64 + (bytes[i + 1] % 64)>>),
                        decodeBytes(bytes, i + 2, end))
          ELSE IF byte1 < 240
          THEN IF i + 2 > end THEN Throws
               ELSE Cat(Bytes(<<(byte1 % 16) * 4096
                                + (bytes[i + 1] % 64) * 64
                                + (bytes[i + 2] % 64)>>),
                        decodeBytes(bytes, i + 3, end))
          ELSE IF i + 3 > end THEN Throws
               ELSE LET code == (byte1 % 8) * 262144
                                + (bytes[i + 1] % 64) * 4096
                                + (bytes[i + 2] % 64) * 64
                                + (bytes[i + 3] % 64)
                        rest == decodeBytes(bytes, i + 4, end)
                    IN IF code <= 65535 THEN Cat(Bytes(<<code>>), rest)
                       ELSE IF code <= 1114111
                       THEN Cat(Bytes(<<55296 + ((code - 65536) \div 1024),
                                        56320 + ((code - 65536) % 1024)>>),
                                rest)
                       ELSE Throws

decodeUtf8(bytes, start, length) ==
  IF IsAscii(SubSeq(bytes, start, start + length - 1))
  THEN Bytes(SubSeq(bytes, start, start + length - 1))
  ELSE decodeBytes(bytes, start, start + length - 1)

(***************************************************************************)
(* serialize.  The result is the bytes written, buffer.subarray(0, length) *)
(* of a buffer that grows as needed, or Throws.                            *)
(***************************************************************************)
appendNull == Bytes(<<192>>)

appendBoolean(value) == Bytes(IF value.b THEN <<195>> ELSE <<194>>)

\* the two's complement of num in eight bytes; num is the sign and the
\* integer part of a number, and Math.abs(num + 1) is floored
appendInt64(num) ==
  LET absValue == IF num.s = <<>> THEN <<>> ELSE MagDec(num.s)
      hi == IF ~num.b THEN Low(High(num.s, 4), 4)
            ELSE Not(Low(High(absValue, 4), 4))
      lo == IF ~num.b THEN Low(num.s, 4) ELSE Not(Low(absValue, 4))
  IN Bytes(Bytes4(hi) \o Bytes4(lo))

\* value is an integer or, with t = "float", a number that is not
appendNumber(value) ==
  IF value.t = "float" THEN Bytes(<<203>> \o value.s)
  ELSE LET w == ToUint32(value)
       IN IF Leq(Zero, value) /\ Leq(value, Max7f) THEN Bytes(Bytes1(w))
          ELSE IF Less(value, Zero) /\ Leq(Number(-32), value)
          THEN Bytes(Bytes1(w))
          ELSE IF Less(Zero, value) /\ Leq(value, Maxff)
          THEN Bytes(<<204>> \o Bytes1(w))
          ELSE IF Leq(Number(-128), value) /\ Leq(value, Max7f)
          THEN Bytes(<<208>> \o Bytes1(w))
          ELSE IF Less(Zero, value) /\ Leq(value, Maxffff)
          THEN Bytes(<<205>> \o Bytes2(w))
          ELSE IF Leq(Number(-32768), value) /\ Leq(value, Max7fff)
          THEN Bytes(<<209>> \o Bytes2(w))
          ELSE IF Less(Zero, value) /\ Leq(value, Maxffffffff)
          THEN Bytes(<<206>> \o Bytes4(w))
          ELSE IF Leq(Num(TRUE, <<128, 0, 0, 0>>), value)
                  /\ Leq(value, Max7fffffff)
          THEN Bytes(<<210>> \o Bytes4(w))
          ELSE IF Less(Zero, value) /\ Leq(value, MAX_SAFE_INTEGER_HIGH)
          THEN LET hi == Low(High(value.s, 4), 4)
                   lo == Low(value.s, 4)
               IN Bytes(<<211>> \o Bytes4(hi) \o Bytes4(lo))
          ELSE IF Leq(Negate(MAX_SAFE_INTEGER_HIGH), value)
                  /\ Leq(value, Num(TRUE, <<128, 0, 0, 1>>))
          THEN Cat(Bytes(<<211>>), appendInt64(value))
          ELSE IF Less(value, Zero)
          THEN Bytes(<<211, 128, 0, 0, 0, 0, 0, 0, 0>>)
          ELSE Bytes(<<207, 255, 255, 255, 255, 255, 255, 255, 255>>)

\* sec = getTime() / 1000 is a number with a fraction: its sign and its
\* integer part go to appendInt64
appendDate(value) ==
  LET whole == LongDiv(value.s, 1000, 0, <<>>).q
      sec == Num(value.b, whole)
      ms == getMilliseconds(value)
      ns == ms * 1000000
      secInt == Low(whole, 4)
      secHigh == IF Len(whole) > 4 THEN whole[1] ELSE 0
  IN IF ms = 0 /\ ~value.b /\ Len(whole) <= 4
     THEN Bytes(<<214, 255>> \o Bytes4(secInt))
     ELSE IF ~value.b /\ (Len(whole) <= 4 \/ (Len(whole) = 5 /\ whole[1] <= 3))
     THEN Bytes(<<215, 255, (ns \div 4194304) % 256, (ns \div 16384) % 256,
                  (ns \div 64) % 256, ((ns % 64) * 4) + secHigh>>
                \o Bytes4(secInt))
     ELSE Cat(Bytes(<<199, 12, 255>> \o Bytes4(ToUint32(Number(ns)))),
              appendInt64(sec))

\* the header of a string, an array, a byte array or a map of len entries
Header(len, fix, fixMax, tag8, tag16, tag32) ==
  LET w == ToUint32(Number(len))
  IN IF len <= fixMax THEN <<fix + len>>
     ELSE IF tag8 # 0 /\ len <= 255 THEN <<tag8>> \o Bytes1(w)
     ELSE IF len <= 65535 THEN <<tag16>> \o Bytes2(w)
     ELSE <<tag32>> \o Bytes4(w)

appendString(value) ==
  LET bytes == encodeUtf8(value.s)
  IN IF bytes.ok
     THEN Bytes(Header(Len(bytes.bytes), 160, 31, 217, 218, 219)
                \o bytes.bytes)
     ELSE Throws

appendBinArray(value) ==
  Bytes(Header(Len(value.s), 0, -1, 196, 197, 198) \o value.s)

\* the members of an object that appendObject writes
Defined(members) == SelectSeq(members, LAMBDA mb : mb.k[1] # Undefined)

RECURSIVE append(_)
RECURSIVE appendItems(_, _)
RECURSIVE appendMembers(_, _)

appendArray(value) ==
  Cat(Bytes(Header(Len(value.k), 144, 15, 0, 220, 221)),
      appendItems(value.k, 1))

appendObject(value) ==
  Cat(Bytes(Header(Len(Defined(value.k)), 128, 15, 0, 222, 223)),
      appendMembers(value.k, 1))

appendItems(items, i) ==
  IF i > Len(items) THEN Bytes(<<>>)
  ELSE Cat(append(items[i]), appendItems(items, i + 1))

appendMembers(members, i) ==
  IF i > Len(members) THEN Bytes(<<>>)
  ELSE IF members[i].k[1] # Undefined
  THEN Cat(Cat(append(Str(members[i].s)), append(members[i].k[1])),
           appendMembers(members, i + 1))
  ELSE appendMembers(members, i + 1)

append(value) ==
  CASE value.t = "undefined" -> appendNull
    [] value.t = "null" -> appendNull
    [] value.t = "boolean" -> appendBoolean(value)
    [] value.t \in {"number", "float"} -> appendNumber(value)
    [] value.t = "string" -> appendString(value)
    [] value.t = "array" -> appendArray(value)
    [] value.t = "Uint8Array" -> appendBinArray(value)
    [] value.t = "Date" -> appendDate(value)
    [] value.t = "object" -> appendObject(value)
    [] OTHER -> Throws

serialize(data) == append(data)
encode(data) == serialize(data)

(***************************************************************************)
(* deserialize.  pos is the read position, counted from 0 as in the code;  *)
(* byte pos of the code is bytes[pos + 1] here.  A read returns            *)
(* [ok, v, pos]: the value and the position after it, or ok = FALSE when   *)
(* it throws.                                                              *)
(***************************************************************************)
Read(v, pos) == [ok |-> TRUE, v |-> v, pos |-> pos]
ReadThrows == [ok |-> FALSE, v |-> Undefined, pos |-> 0]

\* checkBounds(needed) passes
InBounds(bytes, pos, needed) == pos + needed <= Len(bytes)

\* value * 256 + byte
MulAdd(value, byte) ==
  IF ~value.b THEN Num(FALSE, Strip(Append(value.s, byte)))
  ELSE IF byte = 0 THEN Num(TRUE, Append(value.s, 0))
  ELSE Num(TRUE, Append(MagDec(value.s), 256 - byte))

RECURSIVE Fold(_, _)
Fold(value, q) ==
  IF q = <<>> THEN value ELSE Fold(MulAdd(value, Head(q)), Tail(q))

\* a signed read without the sign trick on the first byte
readInt_Unsigned(bytes, pos, count) ==
  IF ~InBounds(bytes, pos, count) THEN ReadThrows
  ELSE Read(Fold(Zero, SubSeq(bytes, pos + 1, pos + count)), pos + count)

readInt(bytes, pos, count) ==
  IF ~InBounds(bytes, pos, count) THEN ReadThrows
  ELSE LET byte == bytes[pos + 1]
           first == Number((byte % 128) - (IF byte >= 128 THEN 128 ELSE 0))
       IN Read(Fold(first, SubSeq(bytes, pos + 2, pos + count)),
               pos + count)

readUInt(bytes, pos, count) ==
  IF ~InBounds(bytes, pos, count) THEN ReadThrows
  ELSE Read(Fold(Zero, SubSeq(bytes, pos + 1, pos + count)), pos + count)

readFloat(bytes, pos, size) ==
  IF ~InBounds(bytes, pos, size) THEN ReadThrows
  ELSE Read(Float(SubSeq(bytes, pos + 1, pos + size)), pos + size)

\* a length that was read: a length of 2^24 or more is beyond every buffer
\* of the model
Length(n, bytes) ==
  IF Len(n.s) > 3 THEN Len(bytes) + 1
  ELSE Low(n.s, 3)[1] * 65536 + Low(n.s, 3)[2] * 256 + Low(n.s, 3)[3]

\* the length of what follows: given (length >= 0), or read from lengthSize
\* bytes
finalLength(bytes, pos, length, lengthSize) ==
  IF length < 0
  THEN LET n == readUInt(bytes, pos, lengthSize)
       IN IF n.ok THEN [ok |-> TRUE, len |-> Length(n.v, bytes),
                        pos |-> n.pos]
          ELSE [ok |-> FALSE, len |-> 0, pos |-> 0]
  ELSE [ok |-> TRUE, len |-> length, pos |-> pos]

\* a read that takes the bytes that are there: subarray without checkBounds
readBin_Clamps(bytes, pos, length, lengthSize) ==
  LET n == finalLength(bytes, pos, length, lengthSize)
      end == IF n.pos + n.len <= Len(bytes) THEN n.pos + n.len ELSE Len(bytes)
  IN IF ~n.ok THEN ReadThrows
     ELSE Read(Bin(SubSeq(bytes, n.pos + 1, end)), n.pos + n.len)

readBin(bytes, pos, length, lengthSize) ==
  LET n == finalLength(bytes, pos, length, lengthSize)
  IN IF ~n.ok \/ ~InBounds(bytes, n.pos, n.len) THEN ReadThrows
     ELSE Read(Bin(SubSeq(bytes, n.pos + 1, n.pos + n.len)), n.pos + n.len)

readStr(bytes, pos, length, lengthSize) ==
  LET n == finalLength(bytes, pos, length, lengthSize)
  IN IF ~n.ok \/ ~InBounds(bytes, n.pos, n.len) THEN ReadThrows
     ELSE LET str == decodeUtf8(bytes, n.pos + 1, n.len)
          IN IF str.ok THEN Read(Str(str.bytes), n.pos + n.len)
             ELSE ReadThrows

\* the Date of a timestamp extension; sec * 1000 + ns / 1000000 is cut to
\* an integer by the Date constructor
readExtDate(data) ==
  IF Len(data) = 4
  THEN TimeClip(FALSE, Scale(Strip(data), 1000, 0))
  ELSE IF Len(data) = 8
  THEN LET ns == data[1] * 4194304 + data[2] * 16384 + data[3] * 64
                 + (data[4] \div 4)
           sec == Strip(<<data[4] % 4>> \o SubSeq(data, 5, 8))
       IN TimeClip(FALSE, Scale(sec, 1000, ns \div 1000000))
  ELSE LET ns == LongDiv(Strip(SubSeq(data, 1, 4)), 1000000, 0, <<>>)
           sec == readInt(data, 4, 8).v
           ms == Scale(sec.s, 1000, 0)
           cut == IF ns.r > 0 THEN <<1>> ELSE <<>>
       IN IF ~sec.b
          THEN TimeClip(FALSE, Scale(sec.s, 1000,
                                     Low(ns.q, 2)[1] * 256 + Low(ns.q, 2)[2]))
          ELSE IF MagLess(ns.q, ms)
          THEN TimeClip(TRUE, MagSub(MagSub(ms, ns.q), cut))
          ELSE TimeClip(FALSE, MagSub(ns.q, ms))

readExt(bytes, pos, length, lengthSize) ==
  LET n == finalLength(bytes, pos, length, lengthSize)
  IN IF ~n.ok \/ ~InBounds(bytes, n.pos, 1 + n.len) THEN ReadThrows
     ELSE LET type == bytes[n.pos + 1]
              data == SubSeq(bytes, n.pos + 2, n.pos + 1 + n.len)
          IN IF type = 255
             THEN IF n.len \in {4, 8, 12}
                  THEN Read(readExtDate(data), n.pos + 1 + n.len)
                  ELSE ReadThrows
             ELSE Read(Ext(type, data), n.pos + 1 + n.len)

\* data[key] = value on an object made by {}: the key __proto__ is the
\* accessor of Object.prototype, the assignment makes no own property
ProtoKey == <<95, 95, 112, 114, 111, 116, 111, 95, 95>>
HasKey(members, key) == \E i \in 1..Len(members) : members[i].s = key
assign(members, key, v) ==
  IF key = ProtoKey THEN members
  ELSE IF HasKey(members, key)
  THEN [i \in 1..Len(members) |->
          IF members[i].s = key THEN Member(key, v) ELSE members[i]]
  ELSE Append(members, Member(key, v))

RECURSIVE read(_, _)
RECURSIVE readItems(_, _, _, _)
RECURSIVE readMembers(_, _, _, _)

readArray(bytes, pos, length, lengthSize) ==
  LET n == finalLength(bytes, pos, length, lengthSize)
  IN IF ~n.ok THEN ReadThrows
     ELSE readItems(bytes, n.pos, n.len, <<>>)

readMap(bytes, pos, length, lengthSize) ==
  LET n == finalLength(bytes, pos, length, lengthSize)
  IN IF ~n.ok THEN ReadThrows
     ELSE readMembers(bytes, n.pos, n.len, <<>>)

readItems(bytes, pos, left, data) ==
  IF left = 0 THEN Read(Arr(data), pos)
  ELSE LET item == read(bytes, pos)
       IN IF item.ok
          THEN readItems(bytes, item.pos, left - 1, Append(data, item.v))
          ELSE ReadThrows

readMembers(bytes, pos, left, data) ==
  IF left = 0 THEN Read(Obj(data), pos)
  ELSE LET key == read(bytes, pos)
       IN IF ~key.ok \/ key.v.t # "string" THEN ReadThrows
          ELSE LET v == read(bytes, key.pos)
               IN IF v.ok
                  THEN readMembers(bytes, v.pos, left - 1,
                                   assign(data, key.v.s, v.v))
                  ELSE ReadThrows

read(bytes, pos) ==
  IF ~InBounds(bytes, pos, 1) THEN ReadThrows
  ELSE LET byte == bytes[pos + 1]
           p == pos + 1
       IN CASE byte <= 127 -> Read(Number(byte), p)
            [] byte >= 128 /\ byte <= 143 -> readMap(bytes, p, byte - 128, 0)
            [] byte >= 144 /\ byte <= 159 ->
                 readArray(bytes, p, byte - 144, 0)
            [] byte >= 160 /\ byte <= 191 -> readStr(bytes, p, byte - 160, 0)
            [] byte >= 224 -> Read(Number(byte - 256), p)
            [] byte = 192 -> Read(Null, p)
            [] byte = 194 -> Read(Bool(FALSE), p)
            [] byte = 195 -> Read(Bool(TRUE), p)
            [] byte = 196 -> readBin(bytes, p, -1, 1)
            [] byte = 197 -> readBin(bytes, p, -1, 2)
            [] byte = 198 -> readBin(bytes, p, -1, 4)
            [] byte = 199 -> readExt(bytes, p, -1, 1)
            [] byte = 200 -> readExt(bytes, p, -1, 2)
            [] byte = 201 -> readExt(bytes, p, -1, 4)
            [] byte = 212 -> readExt(bytes, p, 1, 0)
            [] byte = 213 -> readExt(bytes, p, 2, 0)
            [] byte = 214 -> readExt(bytes, p, 4, 0)
            [] byte = 215 -> readExt(bytes, p, 8, 0)
            [] byte = 216 -> readExt(bytes, p, 16, 0)
            [] byte = 202 -> readFloat(bytes, p, 4)
            [] byte = 203 -> readFloat(bytes, p, 8)
            [] byte = 204 -> readUInt(bytes, p, 1)
            [] byte = 205 -> readUInt(bytes, p, 2)
            [] byte = 206 -> readUInt(bytes, p, 4)
            [] byte = 207 -> readUInt(bytes, p, 8)
            [] byte = 208 -> readInt(bytes, p, 1)
            [] byte = 209 -> readInt(bytes, p, 2)
            [] byte = 210 -> readInt(bytes, p, 4)
            [] byte = 211 -> readInt(bytes, p, 8)
            [] byte = 217 -> readStr(bytes, p, -1, 1)
            [] byte = 218 -> readStr(bytes, p, -1, 2)
            [] byte = 219 -> readStr(bytes, p, -1, 4)
            [] byte = 220 -> readArray(bytes, p, -1, 2)
            [] byte = 221 -> readArray(bytes, p, -1, 4)
            [] byte = 222 -> readMap(bytes, p, -1, 2)
            [] byte = 223 -> readMap(bytes, p, -1, 4)
            [] OTHER -> ReadThrows

\* the value of the bytes, or Throws: trailing bytes are not read
deserialize(array) ==
  IF Len(array) = 0 THEN ReadThrows ELSE read(array, 0)
decode(array) == deserialize(array)

\* no run of the codec
NoRun == "none"
CodecIdle ==
  /\ stage = NoRun
  /\ input = Undefined
  /\ encoded = Throws
  /\ decoded = ReadThrows

(***************************************************************************)
(* Initial state: the state after the constructor, which calls connect().  *)
(***************************************************************************)
NoStats == [requestsSent |-> 0, responsesReceived |-> 0, timeouts |-> 0,
            errors |-> 0, averageResponseTime |-> [sum |-> 0, count |-> 0],
            pendingRequests |-> 0, reconnectCount |-> 0]

Fresh(u, auto, hb) ==
  [ws |-> 0, transports |-> <<>>, autoReconnect |-> auto, url |-> u,
   heartbeatInterval |-> hb, pendingRequests |-> <<>>, reqs |-> <<>>,
   streamCallbacks |-> <<>>, ctrls |-> <<>>, reconnectAttempts |-> 0,
   reconnectTimeoutId |-> FALSE, heartbeatIntervalId |-> FALSE,
   stats |-> NoStats, responseTimes |-> <<>>, listeners |-> NoListeners,
   trace |-> <<>>]

constructor(u, auto, hb) ==
  connect(Fresh(u, auto, hb))

IsState(s) ==
  /\ ws = s.ws
  /\ transports = s.transports
  /\ autoReconnect = s.autoReconnect
  /\ url = s.url
  /\ heartbeatInterval = s.heartbeatInterval
  /\ pendingRequests = s.pendingRequests
  /\ reqs = s.reqs
  /\ streamCallbacks = s.streamCallbacks
  /\ ctrls = s.ctrls
  /\ reconnectAttempts = s.reconnectAttempts
  /\ reconnectTimeoutId = s.reconnectTimeoutId
  /\ heartbeatIntervalId = s.heartbeatIntervalId
  /\ stats = s.stats
  /\ responseTimes = s.responseTimes
  /\ listeners = s.listeners
  /\ trace = s.trace

SessionInit ==
  \E u \in Urls, cfg \in Configs :
    IsState(constructor(u, cfg.autoReconnect, cfg.heartbeatInterval))

Init == SessionInit /\ CodecIdle

(***************************************************************************)
(* Actions: one per public method, transport callback and timer callback.  *)
(***************************************************************************)

RECURSIVE Count(_, _)
Count(q, x) ==
  IF q = <<>> THEN 0
  ELSE (IF Head(q) = x THEN 1 ELSE 0) + Count(Tail(q), x)

NumListeners(s) ==
  Len(s.listeners["close"]) + Len(s.listeners["message"])
  + Len(s.listeners["open"]) + Len(s.listeners["error"])
  + Len(s.listeners["reconnecting"]) + Len(s.listeners["reconnected"])
  + Len(s.listeners["reconnect_failed"])

Objects(s) ==
  Len(s.reqs) + Len(s.ctrls) + s.stats.responsesReceived
  + s.stats.reconnectCount + Len(s.transports) + NumListeners(s)

WithinBounds(s) ==
  /\ Objects(s) <= MaxObjects
  /\ Len(s.reqs) + Len(s.ctrls) <= MaxCalls

\* a transport that is closed and is not the session's transport delivers
\* no further event: it is dropped from the model
Live(s, t) == t = s.ws \/ s.transports[t].rs # Closed
Prune(s) ==
  [s EXCEPT
     !.transports = SelectSeq(
        [t \in 1..Len(s.transports) |->
           IF Live(s, t) THEN s.transports[t] ELSE [rs |-> -1]],
        LAMBDA tr : tr.rs # -1),
     !.ws = Cardinality({t \in 1..s.ws : Live(s, t)})]

Do(s) == WithinBounds(Prune(s)) /\ Becomes(Prune(s))

IssuedIds == CallerIds \cup {reqs[r].id : r \in 1..Len(reqs)}
             \cup {ctrls[c].id : c \in 1..Len(ctrls)}

Request ==
  \E optId \in {NullId} \cup CallerIds, fails \in BOOLEAN :
    Do(request(S, optId, fails))

Notify ==
  \E fails \in BOOLEAN : Do(notify(S, fails))

Stream ==
  \E optId \in {NullId} \cup CallerIds, fails \in BOOLEAN :
    Do(stream(S, optId, fails))

ControllerClose ==
  \E c \in 1..Len(ctrls) :
    Do(controllerClose(S, c))

Close ==
  \E args \in CloseArgs : Do(close(S, args))

ReconnectToUrl ==
  \E u \in Urls : Do(reconnectToUrl(S, u))

On ==
  \E event \in ListenEvents : Do(on(S, event, 1))

Off ==
  \E event \in ListenEvents :
    /\ listeners[event] # <<>>
    /\ Do(off(S, event, 1))

\* the transport t opens and delivers its open event
TransportOpen ==
  \E t \in 1..Len(transports) :
    /\ transports[t].rs = Connecting
    /\ Do(handleOpen([S EXCEPT !.transports[t].rs = Open]))

\* the transport t delivers a frame
TransportMessage ==
  \E t \in 1..Len(transports), frame \in Frames, time \in Latencies,
     throws \in BOOLEAN :
    /\ transports[t].rs = Open
    /\ frame.id \in {NullId} \cup IssuedIds
    /\ throws => MapHas(streamCallbacks, frame.id)
    /\ Do(handleMessage(S, frame, time, throws))

\* the transport t delivers an error event
TransportError ==
  \E t \in 1..Len(transports) :
    /\ transports[t].rs # Closed
    /\ Do(handleError(S))

\* the peer of transport t starts the closing handshake
TransportClosing ==
  \E t \in 1..Len(transports) :
    /\ transports[t].rs = Open
    /\ Do([S EXCEPT !.transports[t].rs = Closing])

\* the transport t is closed and delivers its close event
TransportClose ==
  \E t \in 1..Len(transports) :
    /\ transports[t].rs # Closed
    /\ Do(handleClose([S EXCEPT !.transports[t].rs = Closed]))

\* the timer of request r fires
FireTimer(r) ==
  /\ r \in 1..Len(reqs)
  /\ reqs[r].timer
  /\ Do(requestTimeout(S, r))

RequestTimeout ==
  \E r \in 1..Len(reqs) : FireTimer(r)

ReconnectTimeout ==
  /\ reconnectTimeoutId
  /\ Do(reconnectTimeout(S))

HeartbeatTick ==
  \E fails \in BOOLEAN :
    /\ heartbeatIntervalId
    /\ Do(heartbeatTick(S, fails))

Next ==
  \/ Request
  \/ Notify
  \/ Stream
  \/ ControllerClose
  \/ Close
  \/ ReconnectToUrl
  \/ On
  \/ Off
  \/ TransportOpen
  \/ TransportMessage
  \/ TransportError
  \/ TransportClosing
  \/ TransportClose
  \/ RequestTimeout
  \/ ReconnectTimeout
  \/ HeartbeatTick

Spec == Init /\ [][Next]_vars

\* an armed setTimeout fires: the event loop runs the callback of a timer
\* that stays armed
LiveBound == Objects(S)' <= LiveMaxObjects
LiveNext ==
  \/ Request /\ LiveBound
  \/ Notify /\ LiveBound
  \/ Stream /\ LiveBound
  \/ ControllerClose /\ LiveBound
  \/ Close /\ LiveBound
  \/ ReconnectToUrl /\ LiveBound
  \/ On /\ LiveBound
  \/ Off /\ LiveBound
  \/ TransportOpen /\ LiveBound
  \/ TransportMessage /\ LiveBound
  \/ TransportError /\ LiveBound
  \/ TransportClosing /\ LiveBound
  \/ TransportClose /\ LiveBound
  \/ RequestTimeout /\ LiveBound
  \/ ReconnectTimeout /\ LiveBound
  \/ HeartbeatTick /\ LiveBound
LiveSpec ==
  Init /\ [][LiveNext]_vars /\ \A r \in 1..MaxCalls : WF_vars(FireTimer(r))

\* the emitter alone, with listeners that subscribe, unsubscribe and throw
EmitterOn ==
  \E event \in ListenEvents, l \in Listeners : Becomes(on(S, event, l))

EmitterOff ==
  \E event \in ListenEvents, l \in Listeners :
    /\ InSeq(listeners[event], l)
    /\ Becomes(off(S, event, l))

EmitterEmit ==
  \E event \in ListenEvents : Becomes(EventEmitter_emit(S, event))

EmitterRemoveAll ==
  /\ listeners # NoListeners
  /\ Becomes(removeAllListeners(S))

EmitterNext ==
  \/ EmitterOn
  \/ EmitterOff
  \/ EmitterEmit
  \/ EmitterRemoveAll

EmitterSpec == Init /\ [][EmitterNext]_vars

(***************************************************************************)
(* The codec alone: one value is serialized, then the bytes are            *)
(* deserialized.  The values are the boundary cases of every form the      *)
(* serializer chooses between, and the arrays and objects built from them. *)
(***************************************************************************)
\* the number of elements of a generated array, of members of a generated
\* object
MaxItems == 2

Repeat(x, n) == [i \in 1..n |-> x]

SafeIntegers ==
  {Number(n) : n \in {0, 1, 127, 128, 255, 256, 32767, 32768, 65535, 65536,
                      -1, -32, -33, -128, -129, -32768, -32769}}
  \cup {Number(n) : n \in (-300)..300}
  \cup {Number(n) : n \in {-65535, -65536, 65537, 16777215, 16777216,
                           -16777216, 2147483646, -2147483647}}
  \cup {Num(FALSE, <<255, 255, 255, 254>>), Num(FALSE, <<1, 0, 0, 0, 1>>),
        Num(TRUE, <<255, 255, 255, 254>>), Num(TRUE, <<1, 0, 0, 0, 0, 0, 0>>),
        Num(FALSE, <<31, 255, 255, 255, 255, 255, 254>>),
        Num(TRUE, <<31, 255, 255, 255, 255, 255, 254>>)}
  \cup {Max7fffffff, Num(FALSE, <<128, 0, 0, 0>>), Maxffffffff,
        Num(FALSE, <<1, 0, 0, 0, 0>>), Num(FALSE, <<1, 2, 3, 4, 5, 6>>),
        MAX_SAFE_INTEGER_HIGH,
        Num(TRUE, <<128, 0, 0, 0>>), Num(TRUE, <<128, 0, 0, 1>>),
        Num(TRUE, <<255, 255, 255, 255>>), Num(TRUE, <<1, 0, 0, 0, 0>>),
        Num(TRUE, <<1, 0, 0, 0, 1>>), Num(TRUE, <<1, 2, 3, 4, 5, 6, 0>>),
        Negate(MAX_SAFE_INTEGER_HIGH)}

\* a, e acute, a CJK unit, a surrogate pair and its halves
Units ==
  {<<>>, <<97>>, <<233>>, <<20013>>, <<55357, 56832>>, <<56832>>,
   <<55357>>, <<55357, 97>>, <<97, 233, 20013, 55357, 56832>>}
Strings ==
  {Str(q) : q \in Units}
  \cup {Str(Repeat(97, n)) : n \in {31, 32, 255, 256}}
  \cup {Str(Repeat(233, 16)), Str(Repeat(20013, 11))}

ByteArrays ==
  {Bin(<<>>), Bin(<<0>>), Bin(<<255, 128>>), Bin(Repeat(7, 255)),
   Bin(Repeat(7, 256))}

Scalars == {Null, Bool(TRUE), Bool(FALSE)} \cup SafeIntegers \cup Strings
           \cup ByteArrays

\* the elements and the member values of the generated arrays and objects
Items ==
  {Null, Bool(TRUE), Number(-33), Str(<<233>>), Bin(<<255, 128>>), Arr(<<>>),
   Obj(<<>>), Arr(<<Number(1)>>), Obj(<<Member(<<97>>, Null)>>)}
Keys == {<<97>>, <<98>>, <<233>>, ProtoKey}

SeqsUpTo(set, n) == UNION {[1..k -> set] : k \in 0..n}

Arrays ==
  {Arr(q) : q \in SeqsUpTo(Items, MaxItems)}
  \cup {Arr(Repeat(Null, n)) : n \in {15, 16}}

\* the member i of an object with many members
Key(i) == <<107, 48 + (i \div 10), 48 + (i % 10)>>
ObjectsOver(values) ==
  {Obj([i \in 1..Len(ks) |-> Member(ks[i], vs[i])]) :
     <<ks, vs>> \in
       {p \in SeqsUpTo(Keys, MaxItems) \X SeqsUpTo(values, MaxItems) :
          /\ Len(p[1]) = Len(p[2])
          /\ \A i, j \in 1..Len(p[1]) : p[1][i] = p[1][j] => i = j
          /\ \A i \in 1..Len(p[1]) :
               p[1][i] = ProtoKey => p[2][i].k = <<>>}}
Maps ==
  ObjectsOver(Items)
  \cup {Obj([i \in 1..n |-> Member(Key(i), Number(i))]) : n \in {15, 16}}

\* objects with members whose value is undefined
Sparse ==
  ObjectsOver({Undefined, Number(1)})
  \cup {Obj([i \in 1..17 |->
               Member(Key(i), IF i = 9 THEN Undefined ELSE Null)])}

Universe == Scalars \cup Arrays \cup Maps \cup Sparse

\* the Date secs seconds and ms milliseconds after the epoch, or before it
DateAt(neg, secs, ms) == Date(neg, Scale(secs, 1000, ms))
Seconds ==
  {<<>>, <<1>>, <<2>>, <<1, 81, 128>>, <<101, 83, 241, 0>>,
   <<255, 255, 255, 255>>, <<1, 0, 0, 0, 0>>, <<3, 255, 255, 255, 255>>,
   <<4, 0, 0, 0, 0>>, <<14, 119, 145, 247, 0>>,
   <<7, 219, 168, 33, 127, 255>>}
Dates ==
  {DateAt(neg, secs, ms) :
     neg \in BOOLEAN, secs \in Seconds, ms \in {0, 1, 500, 999}}
  \cup {Date(FALSE, MaxTime), Date(TRUE, MaxTime)}

CodecInit ==
  /\ SessionInit
  /\ stage = "data"
  /\ input \in Universe \cup Dates
  /\ encoded = Throws
  /\ decoded = ReadThrows

sessionVars ==
  <<ws, transports, autoReconnect, url, heartbeatInterval, pendingRequests,
    reqs, streamCallbacks, ctrls, reconnectAttempts, reconnectTimeoutId,
    heartbeatIntervalId, stats, responseTimes, listeners, trace>>

Serialize ==
  /\ stage = "data"
  /\ encoded' = serialize(input)
  /\ stage' = "bytes"
  /\ UNCHANGED <<input, decoded, sessionVars>>

\* the peer receives the first k bytes of the encoding only
Truncate ==
  /\ stage = "bytes"
  /\ encoded.ok
  /\ \E k \in 0..(Len(encoded.bytes) - 1) :
       encoded' = Bytes(SubSeq(encoded.bytes, 1, k))
  /\ stage' = "prefix"
  /\ UNCHANGED <<input, decoded, sessionVars>>

\* bytes with the tag 0xc1 where a value starts: alone, as the element of
\* an array, as the value of a member, and in place of the tag of the
\* encoding
InvalidTag ==
  /\ stage = "bytes"
  /\ encoded.ok
  /\ encoded' \in {Bytes(<<193>>), Bytes(<<145, 193>>),
                   Bytes(<<129, 161, 97, 193>>),
                   Bytes(<<193>> \o Tail(encoded.bytes))}
  /\ stage' = "tag"
  /\ UNCHANGED <<input, decoded, sessionVars>>

\* a map of one member whose key is the encoding
MapKey ==
  /\ stage = "bytes"
  /\ encoded.ok
  /\ encoded' = Bytes(<<129>> \o encoded.bytes \o <<192>>)
  /\ stage' = "key"
  /\ UNCHANGED <<input, decoded, sessionVars>>

\* the stage after deserialize has run on the bytes of a stage
AfterRead == [bytes |-> "value", prefix |-> "prefix read",
              tag |-> "tag read", key |-> "key read"]

Deserialize ==
  /\ stage \in DOMAIN AfterRead
  /\ encoded.ok
  /\ decoded' = deserialize(encoded.bytes)
  /\ stage' = AfterRead[stage]
  /\ UNCHANGED <<input, encoded, sessionVars>>

CodecNext ==
  \/ Serialize
  \/ Truncate
  \/ InvalidTag
  \/ MapKey
  \/ Deserialize

CodecSpec == CodecInit /\ [][CodecNext]_vars

(***************************************************************************)
(* Vocabulary of the claims.                                               *)
(***************************************************************************)
\* the session under every setting of autoReconnect and heartbeatInterval
OptionConfigs ==
  {[autoReconnect |-> a, heartbeatInterval |-> h] :
     a \in BOOLEAN, h \in {0, 30000}}

OptionsInit ==
  /\ \E u \in Urls, cfg \in OptionConfigs :
       IsState(constructor(u, cfg.autoReconnect, cfg.heartbeatInterval))
  /\ CodecIdle

OptionsSpec == OptionsInit /\ [][LiveNext]_vars

Requests == 1..Len(reqs)
Controllers == 1..Len(ctrls)
Transports == 1..Len(transports)
SomeTransportOpen == \E t \in Transports : transports[t].rs = Open

\* the response frames a peer can send in the current state
Responses ==
  {frame \in Frames :
     frame.kind # "garbage" /\ frame.id \in {NullId} \cup IssuedIds}

\* s and u are the same session, the effects of the last call aside
SameSession(s, u) == [s EXCEPT !.trace = <<>>] = [u EXCEPT !.trace = <<>>]

\* the effects of a call that are of one kind
Effects(s, e) == SelectSeq(s.trace, LAMBDA x : x.e = e)
Emits(s, event) ==
  SelectSeq(s.trace, LAMBDA x : x.e = "emit" /\ x.ev = event)

\* a request whose promise is not settled
InFlight(s, r) == s.reqs[r].sink = "pending"

(***************************************************************************)
(* C1: the pending table holds at most one record per id; no sink is       *)
(* completed twice, so the dispatcher and the timer never both complete a  *)
(* request; a response frame whose id has no record completes nothing.     *)
(***************************************************************************)
C1_CompletedAtMostOnce ==
  /\ \A i, j \in 1..Len(pendingRequests) :
       pendingRequests[i].k = pendingRequests[j].k => i = j
  /\ \A r \in Requests :
       /\ reqs[r].calls <= 1
       /\ reqs[r].calls = 1 <=> ~InFlight(S, r)
  /\ \A frame \in Responses, time \in Latencies :
       ~MapHas(pendingRequests, frame.id) =>
         handleMessage(S, frame, time, FALSE).reqs = reqs

\* a response was dispatched, then a second frame with its id
C1_RepeatedResponse ==
  \E r \in Requests :
    /\ reqs[r].sink = "resolved"
    /\ reqs[r].calls = 1
    /\ Len(trace) = 1
    /\ trace[1].e = "emit" /\ trace[1].ev = "message"
    /\ trace[1].a = reqs[r].id

(***************************************************************************)
(* C2: a frame whose non-null id matches a pending record removes the      *)
(* record and cancels its timer in the same step, resolves the promise     *)
(* with the frame's result or rejects it with the frame's message and code *)
(* (counting the error), and getStats().pendingRequests drops by one.      *)
(***************************************************************************)
CompletesRecord(frame, time) ==
  LET r == MapGet(pendingRequests, frame.id)
      s == handleMessage(S, frame, time, FALSE)
  IN /\ ~MapHas(s.pendingRequests, frame.id)
     /\ ~s.reqs[r].timer
     /\ frame.kind = "result" =>
          /\ s.reqs[r].sink = "resolved"
          /\ s.reqs[r].value = Result(frame.result)
     /\ frame.kind = "error" =>
          /\ s.reqs[r].sink = "rejected"
          /\ s.reqs[r].value = Err(frame.message, frame.code)
          /\ s.stats.errors = stats.errors + 1
     /\ getStats(s).pendingRequests = getStats(S).pendingRequests - 1

\* the claim as stated: for every frame whose id matches a pending record
C2_MatchingFrameCompletes ==
  SomeTransportOpen =>
    \A frame \in Responses, time \in Latencies :
      (frame.id # NullId /\ MapHas(pendingRequests, frame.id)) =>
        CompletesRecord(frame, time)

\* the claim as amended: for every frame whose id matches a pending record
\* and no stream subscription
C2_MatchingFrameCompletesUnlessStream ==
  SomeTransportOpen =>
    \A frame \in Responses, time \in Latencies :
      (/\ frame.id # NullId
       /\ MapHas(pendingRequests, frame.id)
       /\ ~MapHas(streamCallbacks, frame.id)) =>
        CompletesRecord(frame, time)

\* a frame with an error was dispatched to a pending request
C2_Rejected ==
  \E r \in Requests :
    /\ reqs[r].sink = "rejected"
    /\ reqs[r].value = Err("no such method", -32601)
    /\ ~reqs[r].timer
    /\ ~MapHas(pendingRequests, reqs[r].id)
    /\ stats.errors = 1
    /\ Len(trace) = 2 /\ trace[1].e = "rejected" /\ trace[2].e = "emit"

(***************************************************************************)
(* C3: the firing of a request's timer rejects its promise with Timeout,   *)
(* increments timeouts by one and leaves no record under its id; a frame   *)
(* with that id dispatched afterwards finds no record, completes nothing   *)
(* and is emitted on message.                                              *)
(***************************************************************************)
C3_TimeoutCompletes ==
  \A r \in Requests :
    reqs[r].timer =>
      LET s == requestTimeout(S, r)
      IN /\ InFlight(S, r)
         /\ s.reqs[r].sink = "rejected"
         /\ s.reqs[r].value = Timeout
         /\ s.reqs[r].calls = 1
         /\ ~s.reqs[r].timer
         /\ s.stats.timeouts = stats.timeouts + 1
         /\ ~MapHas(s.pendingRequests, reqs[r].id)
         /\ \A frame \in Responses, time \in Latencies :
              frame.id = reqs[r].id =>
                LET u == handleMessage([s EXCEPT !.trace = <<>>], frame,
                                       time, FALSE)
                IN /\ u.reqs = s.reqs
                   /\ u.pendingRequests = s.pendingRequests
                   /\ Len(Effects(u, "resolved")) = 0
                   /\ Len(Effects(u, "rejected")) = 0
                   /\ Len(Emits(u, "message")) = 1

\* a request timed out, then a frame with its id was dispatched
C3_LateResponse ==
  \E r \in Requests :
    /\ reqs[r].sink = "rejected"
    /\ reqs[r].value = Timeout
    /\ stats.timeouts = 1
    /\ stats.responsesReceived = 1
    /\ trace = <<Effect(S, "emit", "message", reqs[r].id, 0,
                        listeners["message"])>>

(***************************************************************************)
(* C4: when the current transport closes, every request in flight is       *)
(* rejected as ConnectionClosed and the pending table is empty before      *)
(* reconnecting is emitted, before the reconnect timer is armed and        *)
(* before a connect attempt.                                               *)
(***************************************************************************)
IsReconnectStep(x) ==
  \/ x.e = "emit" /\ x.ev = "reconnecting"
  \/ x.e = "arm" /\ x.ev = "reconnect"
  \/ x.e = "connect"

C4_PendingRejectedBeforeReconnecting ==
  (ws # 0 /\ transports[ws].rs # Closed) =>
    LET s == handleClose([S EXCEPT !.transports[ws].rs = Closed])
    IN /\ s.pendingRequests = <<>>
       /\ \A r \in Requests :
            InFlight(S, r) => /\ s.reqs[r].sink = "rejected"
                              /\ s.reqs[r].value = ConnectionClosed
       /\ \A i, j \in 1..Len(s.trace) :
            (s.trace[i].e = "rejected" /\ IsReconnectStep(s.trace[j]))
              => i < j
       /\ \A j \in 1..Len(s.trace) :
            IsReconnectStep(s.trace[j]) => s.trace[j].pend = 0

(***************************************************************************)
(* C5: every request made while the state is Open is completed exactly     *)
(* once, and no record stays in the pending table forever, if armed timers *)
(* fire.  As stated, the completion is by a matched response, by the       *)
(* request's timer or by a connection-closed purge; as amended, also by    *)
(* the failure of the request's own send.                                  *)
(***************************************************************************)
ByResponse ==
  {Result(x) : x \in Results}
    \cup {Err(f.message, f.code) : f \in {g \in Frames : g.kind = "error"}}
ByPurge == {ConnectionClosed, ClosedByClient}

CompletedOnceBy(kinds) ==
  \A r \in Requests :
    /\ reqs[r].calls <= 1
    /\ ~InFlight(S, r) => reqs[r].calls = 1 /\ reqs[r].value \in kinds
    /\ InFlight(S, r) => reqs[r].timer
    /\ MapHas(pendingRequests, reqs[r].id) =>
         /\ InFlight(S, MapGet(pendingRequests, reqs[r].id))
         /\ reqs[MapGet(pendingRequests, reqs[r].id)].id = reqs[r].id

HasRecord(r) == \E i \in 1..Len(pendingRequests) : pendingRequests[i].v = r
Outstanding(r) == r \in Requests /\ (InFlight(S, r) \/ HasRecord(r))

EventuallyCompleted ==
  \A r \in 1..MaxCalls : Outstanding(r) ~> ~Outstanding(r)

\* the claim as stated
C5_CompletedByResponseTimerOrPurge ==
  /\ [] CompletedOnceBy(ByResponse \cup {Timeout} \cup ByPurge)
  /\ EventuallyCompleted

\* the claim as amended
C5_CompletedAlsoBySendFailure ==
  /\ [] CompletedOnceBy(ByResponse \cup {Timeout} \cup ByPurge
                          \cup {SendFailed})
  /\ EventuallyCompleted

\* a request whose record was overwritten by a request with the same id
\* was completed by its timer after close()
C5_OverwrittenCompletedByTimer ==
  \E r \in Requests :
    /\ r < Len(reqs) /\ reqs[r + 1].id = reqs[r].id
    /\ reqs[r + 1].value = ClosedByClient
    /\ reqs[r].value = Timeout
    /\ Len(trace) = 1 /\ trace[1].e = "rejected" /\ trace[1].a = r

(***************************************************************************)
(* C6: request(), notify() and stream() called while the state is not      *)
(* Open throw NotConnected and change nothing: nothing is sent, no record, *)
(* timer or stream handler is created, requestsSent is not incremented.    *)
(***************************************************************************)
Refused(s) ==
  /\ SameSession(s, S)
  /\ s.trace = <<Effect(S, "throw", NotConnected.message, 0, 0, <<>>)>>

C6_NotOpenRefused ==
  state(S) # Open =>
    \A optId \in {NullId} \cup CallerIds, fails \in BOOLEAN :
      /\ Refused(request(S, optId, fails))
      /\ Refused(notify(S, fails))
      /\ Refused(stream(S, optId, fails))

\* a call was refused after close(), with a request of the session completed
C6_RefusedAfterClose ==
  /\ ws = 0
  /\ state(S) = Closed
  /\ Len(reqs) = 1 /\ reqs[1].value = ClosedByClient
  /\ stats.requestsSent = 1
  /\ trace = <<Effect(S, "throw", NotConnected.message, 0, 0, <<>>)>>

(***************************************************************************)
(* C7: while a stream controller is open, every frame with its id invokes  *)
(* its handler exactly once; controller.close() is idempotent, and after   *)
(* it no frame with that id invokes the handler.                           *)
(***************************************************************************)
Invocations(s, c) == SelectSeq(s.trace, LAMBDA x : x.e = "call" /\ x.a = c)

C7_OpenStreamHandlerInvoked ==
  /\ \A c \in Controllers :
       controllerClose(controllerClose(S, c), c) = controllerClose(S, c)
  /\ SomeTransportOpen =>
       \A c \in Controllers, frame \in Responses, time \in Latencies :
         frame.id = ctrls[c].id =>
           Len(Invocations(handleMessage(S, frame, time, FALSE), c))
             = IF ctrls[c].closed THEN 0 ELSE 1

(***************************************************************************)
(* C8: every decoded frame is emitted on message exactly once and takes    *)
(* one of three branches: a stream with its id is invoked and the pending  *)
(* table is untouched; else a pending record with its id is completed;     *)
(* else nothing is completed.  A frame with a null id changes neither      *)
(* table.                                                                  *)
(***************************************************************************)
Dispatched(frame, time, throws) ==
  LET s == handleMessage(S, frame, time, throws)
      calls == Effects(s, "call")
      done == Effects(s, "resolved") \o Effects(s, "rejected")
  IN /\ Len(Emits(s, "message")) = 1
     /\ s.streamCallbacks = streamCallbacks
     /\ IF frame.id # NullId /\ MapHas(streamCallbacks, frame.id)
        THEN /\ Len(calls) = 1
             /\ calls[1].a = MapGet(streamCallbacks, frame.id)
             /\ done = <<>>
             /\ s.pendingRequests = pendingRequests
             /\ s.reqs = reqs
        ELSE IF frame.id # NullId /\ MapHas(pendingRequests, frame.id)
        THEN /\ calls = <<>>
             /\ Len(done) = 1
             /\ done[1].a = MapGet(pendingRequests, frame.id)
             /\ s.pendingRequests = MapDelete(pendingRequests, frame.id)
        ELSE /\ calls = <<>>
             /\ done = <<>>
             /\ s.pendingRequests = pendingRequests
             /\ s.reqs = reqs

C8_OneBranchAndMessage ==
  SomeTransportOpen =>
    \A frame \in Responses, time \in Latencies, throws \in BOOLEAN :
      (throws => MapHas(streamCallbacks, frame.id)) =>
        Dispatched(frame, time, throws)

(***************************************************************************)
(* C9: the events of a transport that is not the session's current         *)
(* transport reject no request, do not stop the heartbeat, schedule no     *)
(* reconnect and do not count one.                                         *)
(***************************************************************************)
Untouched(s) ==
  /\ s.reqs = reqs
  /\ s.pendingRequests = pendingRequests
  /\ s.heartbeatIntervalId = heartbeatIntervalId
  /\ s.reconnectTimeoutId = reconnectTimeoutId
  /\ s.reconnectAttempts = reconnectAttempts
  /\ s.stats.reconnectCount = stats.reconnectCount
  /\ s.ws = ws

C9_StaleTransportIgnored ==
  \A t \in Transports :
    t # ws =>
      /\ transports[t].rs = Connecting =>
           Untouched(handleOpen([S EXCEPT !.transports[t].rs = Open]))
      /\ transports[t].rs = Open =>
           \A frame \in Responses, time \in Latencies :
             Untouched(handleMessage(S, frame, time, FALSE))
      /\ transports[t].rs # Closed =>
           /\ Untouched(handleError(S))
           /\ Untouched(handleClose([S EXCEPT !.transports[t].rs = Closed]))

(***************************************************************************)
(* C10: after close(code, reason), from any state, autoReconnect is false, *)
(* no reconnect or heartbeat timer is armed, the transport was asked to    *)
(* close with code and reason and the handle is null (state Closed), the   *)
(* pending table is empty, every request that was in flight is rejected    *)
(* as ConnectionClosed, and no listener is registered.                     *)
(***************************************************************************)
C10_CloseReleasesEverything ==
  \A args \in CloseArgs :
    LET s == close(S, args)
    IN /\ ~s.autoReconnect
       /\ ~s.reconnectTimeoutId
       /\ ~s.heartbeatIntervalId
       /\ s.ws = 0
       /\ state(s) = Closed
       /\ ws # 0 =>
            /\ Effects(s, "ws.close")
                 = <<Effect(S, "ws.close", args.reason, 0, args.code, <<>>)>>
            /\ s.transports[ws] = wsClose(transports[ws], args)
       /\ s.pendingRequests = <<>>
       /\ \A r \in Requests :
            InFlight(S, r) => /\ s.reqs[r].sink = "rejected"
                              /\ s.reqs[r].value = ClosedByClient
       /\ s.listeners = NoListeners

(***************************************************************************)
(* C11: close() is idempotent and cancels every timer: a second close()    *)
(* changes no state and completes no sink, and after the first close() no  *)
(* request timer, heartbeat timer or reconnect timer is armed.             *)
(***************************************************************************)
C11_CloseIdempotentNoTimerLeft ==
  \A args \in CloseArgs :
    LET s == close(S, args)
        u == close([s EXCEPT !.trace = <<>>], args)
    IN /\ SameSession(u, s)
       /\ Effects(u, "resolved") = <<>>
       /\ Effects(u, "rejected") = <<>>
       /\ ~s.heartbeatIntervalId
       /\ ~s.reconnectTimeoutId
       /\ \A r \in Requests : ~s.reqs[r].timer

(***************************************************************************)
(* C12: from close() until reconnectToUrl() no connect attempt is started, *)
(* no reconnect timer is armed and neither reconnecting nor                *)
(* reconnect_failed is emitted, whatever is delivered in between.  The     *)
(* configuration enables autoReconnect, so autoReconnect is false exactly  *)
(* from close() until reconnectToUrl().                                    *)
(***************************************************************************)
IsGiveUp(x) == x.e = "emit" /\ x.ev = "reconnect_failed"
IsConnectAttempt(x) ==
  x.e = "connect" \/ (x.e = "throw" /\ x.ev = "new WebSocket")
Quiet(q) ==
  \A i \in 1..Len(q) :
    ~IsReconnectStep(q[i]) /\ ~IsGiveUp(q[i]) /\ ~IsConnectAttempt(q[i])

C12_ClosedStaysQuiet ==
  /\ [](~autoReconnect => ~reconnectTimeoutId)
  /\ [][~autoReconnect' => (~reconnectTimeoutId' /\ Quiet(trace'))]_vars

\* the close event of the transport released by close() was delivered
C12_CloseEventAfterClose ==
  /\ ~autoReconnect
  /\ ws = 0
  /\ transports = <<>>
  /\ Len(trace) = 1 /\ trace[1].e = "emit" /\ trace[1].ev = "close"

(***************************************************************************)
(* C13: with autoReconnect enabled, the close of the open connection       *)
(* followed by connect attempts that all fail emits reconnecting{1,N},     *)
(* ..., reconnecting{N,N}, reconnect_failed (N = maxReconnectAttempts),    *)
(* with N connect attempts and reconnectCount increased by N.              *)
(***************************************************************************)
\* the connect attempt of the reconnect timer fails: new WebSocket throws,
\* or the new transport closes without opening
failedAttempt(s) ==
  LET s1 == reconnectTimeout(s)
  IN IF s1.ws # 0 /\ s1.transports[s1.ws].rs = Connecting
     THEN handleClose([s1 EXCEPT !.transports[s1.ws].rs = Closed])
     ELSE s1

RECURSIVE failingRun(_)
failingRun(s) ==
  IF s.reconnectTimeoutId THEN failingRun(failedAttempt(s)) ELSE s

ReconnectEvents(s) ==
  SelectSeq(s.trace, LAMBDA x : x.e = "emit" /\ x.ev \in {"reconnecting",
                                                        "reconnect_failed"})

ExhaustsAttempts(s) ==
  LET ev == ReconnectEvents(s)
      N == maxReconnectAttempts
  IN /\ Len(ev) = N + 1
     /\ \A i \in 1..N : /\ ev[i].ev = "reconnecting"
                        /\ ev[i].a = i
                        /\ ev[i].b = N
     /\ ev[N + 1].ev = "reconnect_failed"
     /\ Len(SelectSeq(s.trace, IsConnectAttempt)) = N
     /\ s.stats.reconnectCount = stats.reconnectCount + N

C13_FailingRunGivesUpAfterN ==
  (autoReconnect /\ ws # 0 /\ transports[ws].rs = Open) =>
    ExhaustsAttempts(
      failingRun(handleClose([S EXCEPT !.transports[ws].rs = Closed])))

(***************************************************************************)
(* C14: once reconnect_failed has been emitted, the session emits no       *)
(* second reconnect_failed and no reconnecting and starts no connect       *)
(* attempt until reconnectToUrl() (or a transport open) begins a new run:  *)
(* the step that follows a give-up is quiet unless it is one of those.     *)
(***************************************************************************)
GaveUp == \E i \in 1..Len(trace) : IsGiveUp(trace[i])

C14_GiveUpOncePerRun ==
  /\ [](Len(SelectSeq(trace, IsGiveUp)) <= 1)
  /\ [][(GaveUp /\ ~ReconnectToUrl /\ ~TransportOpen) => Quiet(trace')]_vars

(***************************************************************************)
(* C15: at most one reconnect timer is outstanding: a reconnect scheduled  *)
(* while the timer is armed arms no second timer, emits no reconnecting    *)
(* and leaves the attempt counter; a timer is armed only when none is, or  *)
(* after the armed one has fired or has been cleared in the same call.     *)
(***************************************************************************)
ArmsReconnect(x) == x.e = "arm" /\ x.ev = "reconnect"
ClearsReconnect(x) == x.e = "clear" /\ x.ev = "reconnect"

C15_OneReconnectTimer ==
  /\ [](reconnectTimeoutId =>
          /\ scheduleReconnect(S) = S
          /\ \A t \in Transports :
               transports[t].rs # Closed =>
                 LET s == handleClose([S EXCEPT !.transports[t].rs = Closed])
                 IN /\ Quiet(s.trace)
                    /\ s.reconnectTimeoutId
                    /\ s.reconnectAttempts = reconnectAttempts
                    /\ s.stats.reconnectCount = stats.reconnectCount)
  /\ [][/\ Len(SelectSeq(trace', ArmsReconnect)) <= 1
        /\ (reconnectTimeoutId /\ SelectSeq(trace', ArmsReconnect) # <<>>)
             => \/ ReconnectTimeout
                \/ ClearsReconnect(trace'[1])]_vars

\* a transport closed while the reconnect timer was armed
C15_CloseWhileArmed ==
  /\ autoReconnect
  /\ reconnectTimeoutId
  /\ reconnectAttempts = 1
  /\ Quiet(trace)
  /\ \E i \in 1..Len(trace) : trace[i].e = "emit" /\ trace[i].ev = "close"

(***************************************************************************)
(* C16: the attempt counter is reset to 0 by every transport open and by   *)
(* reconnectToUrl(), it stays within 0..maxReconnectAttempts, and every    *)
(* reconnect that is scheduled counts one attempt, so at most              *)
(* maxReconnectAttempts are made in a row.  As stated, the counter is 0    *)
(* when reconnectToUrl() returns; as amended, it is 0 when the connect of  *)
(* reconnectToUrl() has started a transport and 1 when new WebSocket threw *)
(* and that failure was scheduled as the first attempt of the new run.     *)
(***************************************************************************)
CounterBounded ==
  /\ reconnectAttempts \in 0..maxReconnectAttempts
  /\ LET s == scheduleReconnect(S)
     IN IF SelectSeq(s.trace, ArmsReconnect) # <<>>
        THEN s.reconnectAttempts = reconnectAttempts + 1
        ELSE s.reconnectAttempts = reconnectAttempts
  /\ \A t \in Transports :
       transports[t].rs = Connecting =>
         handleOpen([S EXCEPT !.transports[t].rs = Open]).reconnectAttempts = 0

NoReconnectEvent(q) ==
  \A i \in 1..Len(q) :
    /\ ~ArmsReconnect(q[i])
    /\ ~IsGiveUp(q[i])
    /\ ~(q[i].e = "emit" /\ q[i].ev = "reconnecting")

C17_DisabledNeverReconnects ==
  /\ [](~autoReconnect => (~reconnectTimeoutId /\ NoReconnectEvent(trace)))
  /\ [][(~autoReconnect /\ ~autoReconnect')
          => stats.reconnectCount' = stats.reconnectCount]_vars

(***************************************************************************)
(* C18: reconnectToUrl(url), from any state, performs close() (every       *)
(* request in flight is rejected as ConnectionClosed and dropped, the      *)
(* listeners are removed, the timers are cancelled), then sets the url,    *)
(* enables autoReconnect, resets the counter and makes exactly one connect *)
(* attempt; no record of an earlier request is left for a frame of the new *)
(* connection to complete.                                                 *)
(***************************************************************************)
C18_ReconnectToUrlClosesThenConnects ==
  \A u \in Urls :
    LET c == close(S, NoArgs)
        s == reconnectToUrl(S, u)
        attempts == SelectSeq(s.trace, IsConnectAttempt)
    IN /\ Len(s.trace) > Len(c.trace)
       /\ SubSeq(s.trace, 1, Len(c.trace)) = c.trace
       /\ \A r \in Requests :
            InFlight(S, r) => /\ s.reqs[r].sink = "rejected"
                              /\ s.reqs[r].value = ClosedByClient
       /\ s.pendingRequests = <<>>
       /\ s.listeners = NoListeners
       /\ ~s.heartbeatIntervalId
       /\ reconnectTimeoutId =>
            \E i \in 1..Len(c.trace) : ClearsReconnect(c.trace[i])
       /\ s.url = u
       /\ s.autoReconnect
       /\ Len(attempts) = 1
       /\ attempts[1].e = "connect" =>
            /\ attempts[1].ev = u
            /\ s.reconnectAttempts = 0
            /\ ~s.reconnectTimeoutId
            /\ s.ws = Len(s.transports)
            /\ s.transports[s.ws].rs = Connecting
       /\ \A frame \in Responses, time \in Latencies :
            handleMessage(s, frame, time, FALSE).reqs = s.reqs

(***************************************************************************)
(* C19: with heartbeatInterval > 0, the heartbeat timer is armed in every  *)
(* state in which the session's transport is Open; it is not armed after   *)
(* a transport close or after close(); every open arms it.                 *)
(***************************************************************************)
C19_HeartbeatFollowsOpen ==
  heartbeatInterval > 0 =>
    /\ (ws # 0 /\ transports[ws].rs = Open) => heartbeatIntervalId
    /\ \A t \in Transports :
         /\ transports[t].rs # Closed =>
              ~handleClose([S EXCEPT !.transports[t].rs = Closed])
                 .heartbeatIntervalId
         /\ transports[t].rs = Connecting =>
              handleOpen([S EXCEPT !.transports[t].rs = Open])
                .heartbeatIntervalId
    /\ \A args \in CloseArgs : ~close(S, args).heartbeatIntervalId

(***************************************************************************)
(* C20: with heartbeatInterval = 0 no heartbeat timer is armed, so no      *)
(* heartbeat is sent; a heartbeat is a notification, sent only while the   *)
(* state is Open, that changes no state (no id, no record, requestsSent    *)
(* unchanged); a heartbeat whose send fails changes no state either.       *)
(***************************************************************************)
C20_HeartbeatIsBareNotification ==
  /\ heartbeatInterval = 0 =>
       /\ ~heartbeatIntervalId
       /\ \A t \in Transports :
            transports[t].rs = Connecting =>
              ~handleOpen([S EXCEPT !.transports[t].rs = Open])
                 .heartbeatIntervalId
  /\ \A fails \in BOOLEAN :
       LET s == heartbeatTick(S, fails)
       IN /\ SameSession(s, S)
          /\ s.trace =
               IF state(S) # Open THEN <<>>
               ELSE IF fails
               THEN <<Effect(S, "caught", SendFailed.message, 0, 0, <<>>)>>
               ELSE <<Effect(S, "send", "notification", 0, NullId, <<>>)>>

\* a transport opened in a session configured without heartbeat
C20_OpenWithoutHeartbeat ==
  /\ heartbeatInterval = 0
  /\ ws # 0 /\ transports[ws].rs = Open
  /\ ~heartbeatIntervalId
  /\ trace = <<Effect(S, "emit", "open", 0, 0, <<>>)>>

(***************************************************************************)
(* C22: stream() never inserts a pending record and never arms a timer:    *)
(* no id registered only through stream() is in the pending table, no      *)
(* stream is failed with Timeout, and neither a transport close nor a      *)
(* request timeout invokes a stream handler.                               *)
(***************************************************************************)
StreamOnlyIds ==
  {ctrls[c].id : c \in Controllers} \ {reqs[r].id : r \in Requests}

\* the call s left the pending table, the requests and every timer alone
NoPendingNoTimer(s) ==
  /\ s.pendingRequests = pendingRequests
  /\ s.reqs = reqs
  /\ s.reconnectTimeoutId = reconnectTimeoutId
  /\ s.heartbeatIntervalId = heartbeatIntervalId
  /\ s.stats.timeouts = stats.timeouts
  /\ Effects(s, "arm") = <<>>

\* the call s invoked no stream handler and left the subscriptions alone
NoHandlerCall(s) ==
  /\ Effects(s, "call") = <<>>
  /\ s.streamCallbacks = streamCallbacks
  /\ s.ctrls = ctrls

C22_StreamHasNoPendingNoTimer ==
  /\ \A optId \in {NullId} \cup CallerIds, fails \in BOOLEAN :
       NoPendingNoTimer(stream(S, optId, fails))
  /\ StreamOnlyIds \cap MapKeys(pendingRequests) = {}
  /\ \A r \in Requests :
       reqs[r].timer => NoHandlerCall(requestTimeout(S, r))
  /\ \A t \in Transports :
       transports[t].rs # Closed =>
         NoHandlerCall(handleClose([S EXCEPT !.transports[t].rs = Closed]))
  /\ \A i \in 1..Len(trace) :
       trace[i].e = "rejected" /\ trace[i].ev = Timeout.message =>
         trace[i].a \in Requests

\* a request timed out while a subscription made by stream() alone is open
C22_TimeoutBesideOpenStream ==
  /\ stats.timeouts > 0
  /\ \E id \in StreamOnlyIds : MapHas(streamCallbacks, id)
  /\ \E i \in 1..Len(trace) :
       trace[i].e = "rejected" /\ trace[i].ev = Timeout.message

(***************************************************************************)
(* C23: after the session's close() returns, the stream-subscription table *)
(* is empty and no stream handler is invoked for a frame delivered         *)
(* afterwards.                                                             *)
(***************************************************************************)
C23_CloseDestroysStreams ==
  \A args \in CloseArgs :
    LET s == close(S, args)
    IN /\ s.streamCallbacks = <<>>
       /\ \A u \in Urls, frame \in Responses, time \in Latencies :
            LET r == reconnectToUrl(s, u)
                o == handleOpen([r EXCEPT !.transports[r.ws].rs = Open])
            IN r.ws # 0 =>
                 Effects(handleMessage([o EXCEPT !.trace = <<>>],
                                       frame, time, FALSE), "call") = <<>>

(***************************************************************************)
(* C24: an inbound frame whose bytes fail to decode is dropped: it changes *)
(* no stats counter, completes no request, invokes no stream handler,      *)
(* emits no event and raises nothing, and the frames that follow it are    *)
(* processed as if it had not arrived.                                     *)
(***************************************************************************)
Undecodable == {frame \in Frames : frame.kind = "garbage"}

C24_UndecodableFrameDropped ==
  \A g \in Undecodable, time \in Latencies :
    LET s == handleMessage(S, g, time, FALSE)
    IN /\ SameSession(s, S)
       /\ s.trace = <<>>
       /\ \A frame \in Responses, throws \in BOOLEAN :
            (throws => MapHas(streamCallbacks, frame.id)) =>
              handleMessage(s, frame, time, throws)
                = handleMessage(S, frame, time, throws)

\* a state an undecodable frame leaves: a request is pending, a stream is
\* subscribed, a listener waits for messages, and the last call had no effect
C24_DroppedWithWorkOutstanding ==
  /\ SomeTransportOpen
  /\ trace = <<>>
  /\ pendingRequests # <<>>
  /\ streamCallbacks # <<>>
  /\ listeners["message"] # <<>>
  /\ stats.responsesReceived = 0

(***************************************************************************)
(* C25: when encoding or sending fails inside request(), the promise is    *)
(* rejected with the failure, the record just inserted is removed, its     *)
(* timer is cancelled and requestsSent is not incremented; inside stream() *)
(* the handler just registered is removed and the failure is thrown; in    *)
(* both cases the tables are as they were before the call.                 *)
(***************************************************************************)
TablesAsBefore(s) ==
  /\ s.pendingRequests = pendingRequests
  /\ s.streamCallbacks = streamCallbacks
  /\ s.stats = stats

C25_SendFailureRestoresTables ==
  isConnected(S) =>
    \A optId \in {NullId} \cup CallerIds :
      /\ LET s == request(S, optId, TRUE)
             r == Len(reqs) + 1
         IN /\ Len(s.reqs) = r
            /\ s.reqs[r].sink = "rejected"
            /\ s.reqs[r].value = SendFailed
            /\ ~s.reqs[r].timer
            /\ SubSeq(s.reqs, 1, Len(reqs)) = reqs
            /\ s.ctrls = ctrls
            /\ TablesAsBefore(s)
      /\ LET s == stream(S, optId, TRUE)
         IN /\ Effects(s, "throw") =
                 <<Effect(s, "throw", SendFailed.message, 0, 0, <<>>)>>
            /\ s.reqs = reqs
            /\ s.ctrls = ctrls
            /\ TablesAsBefore(s)

(***************************************************************************)
(* C26: averageResponseTime is the mean of the latencies of the most       *)
(* recent at most 100 requests completed by a matched success response; a  *)
(* request completed by an error response, a timeout or a purge adds no    *)
(* sample, and the sample sequence never holds more than 100 entries.      *)
(***************************************************************************)
\* the requests completed by a success response
Succeeded == {r \in Requests : reqs[r].sink = "resolved"}

C26_AverageOverSuccesses ==
  /\ Len(responseTimes) <= MaxSamples
  /\ Len(responseTimes) = Cardinality(Succeeded)
  /\ stats.averageResponseTime =
       [sum |-> Sum(responseTimes), count |-> Len(responseTimes)]
  /\ \A frame \in Responses, time \in Latencies :
       frame.kind = "error" =>
         handleMessage(S, frame, time, FALSE).responseTimes = responseTimes
  /\ \A r \in Requests :
       reqs[r].timer => requestTimeout(S, r).responseTimes = responseTimes
  /\ \A t \in Transports :
       transports[t].rs # Closed =>
         handleClose([S EXCEPT !.transports[t].rs = Closed]).responseTimes
           = responseTimes

(***************************************************************************)
(* C27: in every reachable state requestsSent = timeouts +                 *)
(* responsesReceived + (requests rejected by a connection-closed purge) +  *)
(* (requests still pending).                                               *)
(***************************************************************************)
Purged ==
  {r \in Requests :
     /\ reqs[r].sink = "rejected"
     /\ reqs[r].value \in {ConnectionClosed, ClosedByClient}}

C27_CountersBalance ==
  stats.requestsSent =
    stats.timeouts + stats.responsesReceived + Cardinality(Purged)
    + getStats(S).pendingRequests

(***************************************************************************)
(* C29: every transport open that follows at least one `reconnecting`      *)
(* event of the current run causes exactly one `reconnected` emission.     *)
(***************************************************************************)
C29_ReconnectedOnReopen ==
  \A t \in Transports :
    /\ t = ws
    /\ transports[t].rs = Connecting
    /\ reconnectAttempts > 0
    => Len(Emits(handleOpen([S EXCEPT !.transports[t].rs = Open]),
                 "reconnected")) = 1

(***************************************************************************)
(* C28: emit(event, data) invokes exactly the listeners registered for the *)
(* event when emit starts, each once and in subscription order; a listener *)
(* added during the emit does not receive it, and a listener that throws   *)
(* does not stop the delivery to the others.                               *)
(***************************************************************************)
\* the listeners a call invoked, in the order of the invocations
Invoked(s) ==
  [i \in 1..Len(Effects(s, "listener")) |-> Effects(s, "listener")[i].a]

C28_EmitDeliversToRegistered ==
  \A event \in ListenEvents :
    Invoked(EventEmitter_emit(S, event)) = listeners[event]

(***************************************************************************)
(* C30: for every value v built from null, booleans, integers with         *)
(* |v| <= 2^53-1, strings, byte arrays, arrays and string-keyed maps,      *)
(* decode(encode(v)) is structurally equal to v; a map member whose value  *)
(* is undefined is elided, and the encoded member count is the number of   *)
(* defined members.                                                        *)
(***************************************************************************)
\* v without the members whose value is undefined
RECURSIVE Elided(_)
Elided(v) ==
  IF v.t = "object"
  THEN Obj([i \in 1..Len(Defined(v.k)) |->
              Member(Defined(v.k)[i].s, Elided(Defined(v.k)[i].k[1]))])
  ELSE IF v.t = "array"
  THEN Arr([i \in 1..Len(v.k) |-> Elided(v.k[i])])
  ELSE v

\* the member count in the header of an encoded map
MemberCount(bytes) ==
  IF bytes[1] = 222 THEN bytes[2] * 256 + bytes[3] ELSE bytes[1] - 128

C30_RoundTrip ==
  input.t # "Date" =>
    /\ stage = "bytes" =>
         /\ encoded.ok
         /\ input.t = "object" =>
              MemberCount(encoded.bytes) = Len(Defined(input.k))
    /\ stage = "value" =>
         /\ decoded.ok
         /\ decoded.v = Elided(input)

(***************************************************************************)
(* C21: notify(method, params) in state Open hands exactly one frame to    *)
(* the transport; the frame is a map with the members jsonrpc and method,  *)
(* with params only when it is defined, and with no id member; the pending *)
(* table, the stream table, every timer and every counter are unchanged.   *)
(***************************************************************************)
JsonrpcKey == <<106, 115, 111, 110, 114, 112, 99>>
MethodKey == <<109, 101, 116, 104, 111, 100>>
ParamsKey == <<112, 97, 114, 97, 109, 115>>
IdKey == <<105, 100>>
Version == <<50, 46, 48>>
Ping == <<112, 105, 110, 103>>

\* the object literal of notify()
notification(method, params) ==
  Obj(<<Member(JsonrpcKey, Str(Version)), Member(MethodKey, Str(method)),
        Member(ParamsKey, params)>>)

NotifyParams ==
  {Undefined, Null, Arr(<<Number(1)>>), Obj(<<Member(<<97>>, Bool(TRUE))>>)}

MemberNames(v) == [i \in 1..Len(v.k) |-> v.k[i].s]

\* what the peer decodes from the frame of notify(method, params)
notified(method, params) == decode(encode(notification(method, params)).bytes)

C21_NotifyOneFrameNoBookkeeping ==
  /\ isConnected(S) =>
       LET s == notify(S, FALSE)
       IN /\ SameSession(s, S)
          /\ s.trace = <<Effect(S, "send", "notification", 0, NullId, <<>>)>>
  /\ \A params \in NotifyParams :
       LET frame == notified(Ping, params)
       IN /\ encode(notification(Ping, params)).ok
          /\ frame.ok
          /\ frame.v.t = "object"
          /\ ~HasKey(frame.v.k, IdKey)
          /\ MemberNames(frame.v) =
               IF params = Undefined THEN <<JsonrpcKey, MethodKey>>
               ELSE <<JsonrpcKey, MethodKey, ParamsKey>>
          /\ params # Undefined => frame.v.k[3].k[1] = params

\* a notification was sent while a request is pending and a stream is open
C21_NotifiedWithWorkOutstanding ==
  /\ trace = <<Effect(S, "send", "notification", 0, NullId, <<>>)>>
  /\ pendingRequests # <<>>
  /\ streamCallbacks # <<>>
  /\ stats.requestsSent = 2

(***************************************************************************)
(* C34.  The session creates a transport only from the Closed state: in    *)
(* every reachable state at most one transport that the session created    *)
(* is Connecting or Open (the session never detaches its handlers from a   *)
(* transport), and the session's current transport is not replaced while   *)
(* it is Connecting or Open.                                               *)
(***************************************************************************)
LiveTransports == {t \in 1..Len(transports) :
                     transports[t].rs \in {Connecting, Open}}

\* C34: at most one transport of the session is Connecting or Open
C34_OneLiveTransport == Cardinality(LiveTransports) <= 1

(***************************************************************************)
(* C35.  Dispatch order within one inbound frame: a stream handler is      *)
(* invoked before the frame is emitted on message; the record of a         *)
(* matched pending request is removed and its sink completed before the    *)
(* frame is emitted, so a message listener does not find the matched       *)
(* request in the pending table.                                           *)
(***************************************************************************)
MessageEmits(s) ==
  {j \in 1..Len(s.trace) :
     s.trace[j].e = "emit" /\ s.trace[j].ev = "message"}

\* the stream handler under the frame's id was called before every emit
StreamFirst(s, frame) ==
  /\ MessageEmits(s) # {}
  /\ \A j \in MessageEmits(s) :
       \E i \in 1..(j - 1) :
         /\ s.trace[i].e = "call"
         /\ s.trace[i].a = MapGet(streamCallbacks, frame.id)

\* the record under the frame's id was removed and its sink completed before
\* every emit, which found the table one record shorter
PendingFirst(s, frame) ==
  /\ MessageEmits(s) # {}
  /\ \A j \in MessageEmits(s) :
       /\ \E i \in 1..(j - 1) :
            /\ s.trace[i].e \in {"resolved", "rejected"}
            /\ s.trace[i].a = MapGet(pendingRequests, frame.id)
       /\ s.trace[j].pend = Len(pendingRequests) - 1
  /\ ~MapHas(s.pendingRequests, frame.id)

CloseEmits(s) ==
  {j \in 1..Len(s.trace) : s.trace[j].e = "emit" /\ s.trace[j].ev = "close"}

\* C36: a close listener observes an empty pending table
C36_PurgeBeforeCloseEvent ==
  (ws # 0 /\ transports[ws].rs = Open) =>
    LET s == handleClose([S EXCEPT !.transports[ws].rs = Closed])
    IN /\ CloseEmits(s) # {}
       /\ \A j \in CloseEmits(s) :
            /\ s.trace[j].pend = 0
            /\ \A i \in 1..Len(s.trace) :
                 s.trace[i].e = "rejected" => i < j

(***************************************************************************)
(* C37.  reconnectCount is incremented, and reconnecting emitted, when the *)
(* reconnect timer fires and the connect follows: reconnectCount changes   *)
(* in no other step, so that a reconnect timer that close() cancels has    *)
(* counted nothing.                                                        *)
(***************************************************************************)
\* C37: only the firing of the reconnect timer changes reconnectCount
C37_CountedWhenTimerFires ==
  [][stats'.reconnectCount # stats.reconnectCount => ReconnectTimeout]_vars

(***************************************************************************)
(* C38.  The firing of a request's timeout timer removes and fails only    *)
(* that request's own pending record: the record of every other request    *)
(* stays in the table, also that of a later request with the same id, and  *)
(* no other request is completed.                                          *)
(***************************************************************************)
\* C38: the timer of request r leaves the records of the other requests
C38_TimeoutRemovesOwnRecordOnly ==
  \A r \in Requests :
    reqs[r].timer =>
      LET s == requestTimeout(S, r)
      IN \A i \in 1..Len(pendingRequests) :
           pendingRequests[i].v # r =>
             /\ MapGet(s.pendingRequests, pendingRequests[i].k)
                  = pendingRequests[i].v
             /\ s.reqs[pendingRequests[i].v] = reqs[pendingRequests[i].v]

(***************************************************************************)
(* C39.  A stream controller's close() removes only its own subscription:  *)
(* while the session is not closed, the handler of every controller whose  *)
(* closed is false is registered under the controller's id and is invoked  *)
(* for the next frame with that id, whatever other controllers and later   *)
(* stream() calls under the same id have done.                             *)
(***************************************************************************)
\* C39: the handler of every open controller is registered and invoked
C39_OpenControllerKeepsSubscription ==
  \A c \in Controllers :
    (~ctrls[c].closed /\ autoReconnect) =>
      /\ MapGet(streamCallbacks, ctrls[c].id) = c
      /\ \A frame \in Responses, time \in Latencies :
           (SomeTransportOpen /\ frame.id = ctrls[c].id) =>
             Len(Invocations(handleMessage(S, frame, time, FALSE), c)) = 1

(***************************************************************************)
(* C40.  A stream handler that throws is contained like a listener         *)
(* failure: the frame is still emitted on message exactly once, and the    *)
(* subscription and the rest of the session are as they are after a        *)
(* handler that returned.                                                  *)
(***************************************************************************)
\* C40: a frame whose stream handler throws is emitted once all the same
C40_ThrowingStreamHandlerContained ==
  SomeTransportOpen =>
    \A frame \in Responses, time \in Latencies :
      (frame.id # NullId /\ MapHas(streamCallbacks, frame.id)) =>
        LET s == handleMessage(S, frame, time, TRUE)
        IN /\ Len(Emits(s, "message")) = 1
           /\ s.streamCallbacks = streamCallbacks
           /\ [s EXCEPT !.trace = <<>>]
                = [handleMessage(S, frame, time, FALSE) EXCEPT !.trace = <<>>]

(***************************************************************************)
(* C31.  Integer width selection: for every integer n with |n| <= 2^53-1,  *)
(* encode(n) has 1 byte for -32..127, 2 bytes for 128..255 and -128..-33,  *)
(* 3 bytes for 256..65535 and -32768..-129, 5 bytes for 65536..4294967295  *)
(* and -2147483648..-32769, and 9 bytes otherwise; the bytes after the tag *)
(* are n in two's complement, most significant byte first; and the decoder *)
(* returns exactly n.                                                      *)
(***************************************************************************)
Between(lo, n, hi) == Leq(lo, n) /\ Leq(n, hi)

\* the encoded length of n by the table
Width(n) ==
  IF Between(Number(-32), n, Number(127)) THEN 1
  ELSE IF Between(Number(-128), n, Number(255)) THEN 2
  ELSE IF Between(Number(-32768), n, Number(65535)) THEN 3
  ELSE IF Between(Num(TRUE, <<128, 0, 0, 0>>), n,
                  Num(FALSE, <<255, 255, 255, 255>>)) THEN 5
  ELSE 9

\* n modulo 256^w, most significant byte first
TwosComplement(n, w) ==
  IF n.b THEN Not(Low(MagDec(n.s), w)) ELSE Low(n.s, w)

\* the bytes of an encoded integer without its tag
Payload(bytes) == IF Len(bytes) = 1 THEN bytes ELSE Tail(bytes)

C31_IntegerWidths ==
  input.t = "number" =>
    /\ stage = "bytes" =>
         /\ encoded.ok
         /\ Len(encoded.bytes) = Width(input)
         /\ Payload(encoded.bytes)
              = TwosComplement(input, Len(Payload(encoded.bytes)))
    /\ stage = "value" =>
         /\ decoded.ok
         /\ decoded.v = input
         /\ decoded.pos = Len(encoded.bytes)

\* the smallest safe integer went through the codec in nine bytes
C31_SmallestSafeIntegerDecoded ==
  /\ stage = "value"
  /\ input = Negate(MAX_SAFE_INTEGER_HIGH)
  /\ encoded.bytes = <<211, 255, 224, 0, 0, 0, 0, 0, 1>>
  /\ decoded.v = input

(***************************************************************************)
(* C32.  Date round trip: for every Date d, also before 1970 and with      *)
(* milliseconds that are not zero, encode(d) is one of the three layouts   *)
(* of extension 0xFF (fixext4, fixext8, ext8 of length 12) and             *)
(* decode(encode(d)) is a Date with the time value of d.                   *)
(***************************************************************************)
TimestampLayouts ==
  {[head |-> <<214, 255>>, len |-> 6], [head |-> <<215, 255>>, len |-> 10],
   [head |-> <<199, 12, 255>>, len |-> 15]}

\* C32: a Date comes back with the same time value
C32_DateRoundTrip ==
  input.t = "Date" =>
    /\ stage = "bytes" =>
         /\ encoded.ok
         /\ \E l \in TimestampLayouts :
              /\ Len(encoded.bytes) = l.len
              /\ SubSeq(encoded.bytes, 1, Len(l.head)) = l.head
    /\ stage = "value" =>
         /\ decoded.ok
         /\ decoded.v = input

(***************************************************************************)
(* C33.  Deserializer bounds: for every supported value v and every proper *)
(* prefix p of encode(v), the empty one included, decode(p) throws and     *)
(* returns no value; the read position of a decode never exceeds the       *)
(* length of the buffer; the tag 0xC1 where a value starts, and a map key  *)
(* that decodes to something that is not a string, throw as well.          *)
(***************************************************************************)
ReadStages == {AfterRead[x] : x \in DOMAIN AfterRead}

C33_TruncatedAndInvalidInputThrows ==
  /\ stage = "prefix read" => ~decoded.ok
  /\ stage = "tag read" => ~decoded.ok
  /\ (stage = "key read" /\ input.t # "string") => ~decoded.ok
  /\ (stage \in ReadStages /\ decoded.ok) =>
       decoded.pos <= Len(encoded.bytes)

\* a map of two members was cut inside its second member and did not decode
C33_MapCutInsideMember ==
  /\ stage = "prefix read"
  /\ input.t = "object"
  /\ Len(input.k) = 2
  /\ Len(encode(input).bytes) = Len(encoded.bytes) + 1
  /\ ~decoded.ok

====
